---------------------------- MODULE Spec2Model ----------------------------
(***************************************************************************)
(* Position reconciliation of the broker event listener                    *)
(* (src/event_listener.py) with its snapshot cache, stale/ghost filter and *)
(* trade-action classifier.                                                *)
(*                                                                         *)
(* Time is counted in tenths of a second of the event loop's monotonic     *)
(* clock: the cache TTL 0.5 is 5, the reopen window 3.0 is 30, the         *)
(* propagation delay 0.1 is 1.  The clock starts at 1: a timestamp of 0    *)
(* is the falsy value the code's truth tests treat like None.              *)
(*                                                                         *)
(* Position sizes are the broker's contract counts (magnitudes); the side  *)
(* of a position is carried by its direction.                              *)
(***************************************************************************)
EXTENDS Integers, Sequences, FiniteSets, TLC

(***************************************************************************)
(* Bounds of the model                                                     *)
(***************************************************************************)
MaxTicks == 3            \* clock advances in a run
MaxEvents == 3           \* events delivered by the event source in a run
MaxFills == MaxEvents - 1    \* order fills among them
MaxPosEvents == 5        \* position updates in a run without order fills

\* The clock advances by one of these amounts: 1 is the propagation delay,
\* 4 and 4 + 1 lie on either side of the cache TTL, 29 and 29 + 1 on either
\* side of the reopen window.
TickSteps == {1, 4, 29}

(***************************************************************************)
(* Program constants                                                       *)
(***************************************************************************)
CacheTtl == 5
IgnoreReopenWindow == 30
PropagationDelay == 1

Sizes == {0, 2, 5}
Directions == {"LONG", "SHORT"}

\* decoded payloads of the position-update events the event source delivers
\* and the ground-truth positions the broker reports
EventPositions == {[size |-> z, direction |-> "LONG"] : z \in {0, 5}}
BrokerPositions == {[size |-> 2, direction |-> "LONG"],
                    [size |-> 5, direction |-> "LONG"],
                    [size |-> 5, direction |-> "SHORT"]}

\* Python's None for a position snapshot / confirmed position
None == [size |-> 0, direction |-> "NONE"]
Positions == [size : Sizes, direction : Directions]
Snapshots == Positions \cup {None}

\* truth value of `pos` in `if pos` (None is falsy, a populated dict truthy)
Truthy(pos) == pos.direction # "NONE"

Abs(n) == IF n < 0 THEN -n ELSE n

Labels == {"Open", "Add", "Reduce", "Close", "Flip", "Adjust", "Unknown"}
\* keys of self._trade_actions
ActionKeys == {"Open", "Add", "Reduce", "Close", "Reverse", "Adjust", "Unknown"}

VARIABLES
    now,            \* asyncio event loop time
    ticks,          \* number of clock advances so far
    broker,         \* ground-truth position held by the broker
    brokerChanges,  \* number of ground-truth changes so far
    cache,          \* self._position_cache
    cacheTs,        \* self._cache_timestamp
    lastConfirmed,  \* self._last_confirmed_position
    flatTs,         \* self._position_flat_timestamp (0: None)
    riskEnabled,    \* self.enable_risk_rules and self.risk_handler
    tasks,          \* running ORDER_FILLED handler coroutines
    tradeActions,   \* self._trade_actions
    staleFiltered,  \* self._stale_executions_filtered
    eventCounts,    \* self.event_counts
    delivered,      \* number of events delivered by the event source
    lastPos,        \* record of the last position-update event handled
    fillEv,         \* record of the order-fill event being handled
    engine,         \* RuleEngine.stats, the rule's breach count, close calls
    classified,     \* a pair of snapshots and the labels the classifier gave it
    gets,           \* record of the last two _get_current_position_info calls
    script,         \* position in the end-to-end event sequence
    rule,           \* a MaxContractsRule used directly: config, _breach_count
    checked,        \* record of the last MaxContractsRule.check call
    ruleEngine,     \* a RuleEngine: config, rules, stats
    configFile,     \* the risk configuration file on disk
    evaluated,      \* record of the last event the engine processed
    runner          \* run_listener and the program's entry point

vars == <<now, ticks, broker, brokerChanges, cache, cacheTs, lastConfirmed,
          flatTs, riskEnabled, tasks, tradeActions, staleFiltered, eventCounts,
          delivered, lastPos, fillEv, engine, classified, gets, script,
          rule, checked, ruleEngine, configFile, evaluated, runner>>

\* the rule and the engine used directly, outside the listener
rulesVars == <<rule, checked, ruleEngine, configFile, evaluated>>

\* the records kept about direct calls and the scripted event sequence, and
\* the run loop; the listener's handlers do not touch them
probeVars == <<classified, gets, script, rulesVars, runner>>

(***************************************************************************)
(* Pure helpers                                                            *)
(***************************************************************************)

\* (mutant) the direction is compared ahead of the zero-size cases
ClassifyTradeActionDirectionFirst(prev_pos, current_pos) ==
    IF ~Truthy(prev_pos) /\ Truthy(current_pos) THEN "Open"
    ELSE IF Truthy(prev_pos) /\ ~Truthy(current_pos) THEN "Close"
    ELSE IF Truthy(prev_pos) /\ Truthy(current_pos) THEN
        IF current_pos.direction # prev_pos.direction THEN "Flip"
        ELSE IF Abs(prev_pos.size) = 0 /\ Abs(current_pos.size) > 0 THEN "Open"
        ELSE IF Abs(current_pos.size) = 0 /\ Abs(prev_pos.size) > 0 THEN "Close"
        ELSE IF Abs(current_pos.size) > Abs(prev_pos.size) THEN "Add"
        ELSE IF Abs(current_pos.size) < Abs(prev_pos.size) THEN "Reduce"
        ELSE "Adjust"
    ELSE "Unknown"

\* EventListener._classify_trade_action (order_side is not read)
ClassifyTradeAction(prev_pos, current_pos) ==
    IF ~Truthy(prev_pos) /\ Truthy(current_pos) THEN "Open"
    ELSE IF Truthy(prev_pos) /\ ~Truthy(current_pos) THEN "Close"
    ELSE IF Truthy(prev_pos) /\ Truthy(current_pos) THEN
        IF Abs(prev_pos.size) = 0 /\ Abs(current_pos.size) > 0 THEN "Open"
        ELSE IF Abs(current_pos.size) = 0 /\ Abs(prev_pos.size) > 0 THEN "Close"
        ELSE IF current_pos.direction = prev_pos.direction THEN
            IF Abs(current_pos.size) > Abs(prev_pos.size) THEN "Add"
            ELSE IF Abs(current_pos.size) < Abs(prev_pos.size) THEN "Reduce"
            ELSE "Adjust"
        ELSE "Flip"
    ELSE "Unknown"

\* (mutant) every size-0 event counts as a manual close
IsManualCloseAnyZero(size, conf) == size = 0

\* the manual-close test of _on_position_updated
IsManualClose(size, conf) ==
    size = 0 /\ Truthy(conf) /\ Abs(conf.size) > 0

\* (mutant) the window compared with <= in place of <
IsGhostReopenInclusive(size, ts, t) ==
    size # 0 /\ ts # 0 /\ (t - ts) <= IgnoreReopenWindow

\* the ghost-reopen test of _on_position_updated
IsGhostReopen(size, ts, t) ==
    size # 0 /\ ts # 0 /\ (t - ts) < IgnoreReopenWindow

\* (mutant) the post-fill snapshot is not consulted
IsStaleAfterManualCloseNoSnapshot(ts, t, current_pos) ==
    ts # 0 /\ (t - ts) < IgnoreReopenWindow

\* (mutant) the marker suppresses fills however old it is
IsStaleAfterManualCloseForever(ts, t, current_pos) ==
    ts # 0 /\ Truthy(current_pos) /\ Abs(current_pos.size) > 0

\* (mutant) only a marker that was already set before the propagation delay
\* counts, as if the marker were read ahead of the delay
IsStaleAfterManualCloseSampledEarly(ts, t, current_pos) ==
    ts # 0 /\ ts <= t - PropagationDelay /\ (t - ts) < IgnoreReopenWindow
      /\ Truthy(current_pos) /\ Abs(current_pos.size) > 0

\* is_stale_after_manual_close of _on_order_filled
IsStaleAfterManualClose(ts, t, current_pos) ==
    ts # 0 /\ (t - ts) < IgnoreReopenWindow
      /\ Truthy(current_pos) /\ Abs(current_pos.size) > 0

\* (mutant) the cache entry is taken to live no longer than the propagation
\* delay
CacheValidShortLived(force_refresh, c, cts, t) ==
    ~force_refresh /\ Truthy(c) /\ (t - cts) < PropagationDelay

\* the cache test of _get_current_position_info
CacheValid(force_refresh, c, cts, t) ==
    ~force_refresh /\ Truthy(c) /\ (t - cts) < CacheTtl

\* what _get_current_position_info returns once its live query has ended:
\* the decoded first position on success, None when the query raised
QueryReturn(ok, positions) == IF ok THEN positions ELSE None

\* the cache entry after the live query has ended (written on success only,
\* stamped with the time read before the query was sent)
CacheAfterQuery(ok, positions, started, c, cts) ==
    IF ok THEN [entry |-> positions, ts |-> started]
          ELSE [entry |-> c, ts |-> cts]

\* _get_current_position_info(force_refresh) called at time t with the cache
\* holding c stamped cts, the broker holding `positions`, and the live query
\* (when one is sent) succeeding or raising: the value returned, the cache
\* afterwards, and whether a query was sent
GetCurrentPositionInfo(force_refresh, ok, positions, c, cts, t) ==
    IF CacheValid(force_refresh, c, cts, t)
    THEN [ret |-> c, entry |-> c, ts |-> cts, queried |-> FALSE]
    ELSE LET a == CacheAfterQuery(ok, positions, t, c, cts) IN
         [ret |-> QueryReturn(ok, positions), entry |-> a.entry, ts |-> a.ts,
          queried |-> TRUE]

\* (mutant) a ghost reopen restarts the window
OnPositionUpdatedExtending(size, direction, t, conf, ts) ==
    IF IsManualClose(size, conf) THEN
        [confirmed |-> [size |-> size, direction |-> direction],
         flatTs |-> t, outcome |-> "manual_close"]
    ELSE IF IsGhostReopen(size, ts, t) THEN
        [confirmed |-> conf, flatTs |-> t, outcome |-> "ghost"]
    ELSE
        [confirmed |-> [size |-> size, direction |-> direction],
         flatTs |-> ts, outcome |-> "accepted"]

\* _on_position_updated as a function of the decoded event and the state
OnPositionUpdated(size, direction, t, conf, ts) ==
    IF IsManualClose(size, conf) THEN
        [confirmed |-> [size |-> size, direction |-> direction],
         flatTs |-> t, outcome |-> "manual_close"]
    ELSE IF IsGhostReopen(size, ts, t) THEN
        [confirmed |-> conf, flatTs |-> ts, outcome |-> "ghost"]
    ELSE
        [confirmed |-> [size |-> size, direction |-> direction],
         flatTs |-> ts, outcome |-> "accepted"]

\* _on_position_updated for a payload with an average price, which is a
\* number (or absent, read as the default 0) or a non-empty text: the marker
\* of a manual close is set (line 313) before the new confirmed position is
\* built (lines 335-340); a ghost reopen returns before it is built.
\* f"${avg_price:.2f}" if avg_price else "unknown" raises for a non-empty
\* str (truthy, no format code 'f'), and the handler ends in its except
\* branch.
OnPositionUpdatedPriced(size, direction, price, t, conf, ts) ==
    LET r == OnPositionUpdated(size, direction, t, conf, ts) IN
    IF r.outcome = "ghost" \/ price # "text" THEN r
    ELSE [confirmed |-> conf, flatTs |-> r.flatTs, outcome |-> "error"]

\* the body of _on_order_filled after both snapshots are taken: the stale
\* test, the classification and the counter update.  `counted` says whether
\* self._trade_actions[label] += 1 succeeded, `error` whether the handler
\* ended in its except branch (KeyError for a label that is no key of
\* _trade_actions; TypeError from awaiting the float returned by
\* _get_incremental_realized_pnl when the position is fully closed).
FillBody(prev_pos, current_pos, ts, t) ==
    IF IsStaleAfterManualClose(ts, t, current_pos) THEN
        [stale |-> TRUE, label |-> "none", counted |-> FALSE, error |-> FALSE]
    ELSE
        LET a == ClassifyTradeAction(prev_pos, current_pos) IN
        IF a \notin ActionKeys THEN
            [stale |-> FALSE, label |-> a, counted |-> FALSE, error |-> TRUE]
        ELSE
            [stale |-> FALSE, label |-> a, counted |-> TRUE,
             error |-> ~Truthy(current_pos) /\ Truthy(prev_pos)]

\* MaxContractsConfig.max_size
MaxSizeCfg == 3

\* MaxContractsRule._extract_position_data on the enriched fill wrapper
\* {'order_event', 'current_position', 'event_type'}: the size it extracts,
\* or -1 when the extraction raises and None is returned.  `hasCid` says
\* whether the order event is a mapping holding contractId / contract_id.
ExtractEnrichedSize(current_pos, hasCid) ==
    IF Truthy(current_pos) THEN
        IF hasCid THEN Abs(current_pos.size) ELSE -1
    ELSE 0

\* MaxContractsRule.check on an extracted size: TRUE when within limits
RulePasses(size) == size = -1 \/ ~(Abs(size) > MaxSizeCfg)

(***************************************************************************)
(* MaxContractsRule                                                        *)
(***************************************************************************)

\* Events handed to MaxContractsRule.check.
\*   shape   "enriched": {'order_event', 'current_position', 'event_type'} as
\*                       built by _on_order_filled_with_risk_check
\*           "dict":     a position payload mapping
\*           "object":   an attribute-style object
\*   hasSize the event carries a size (enriched: current_position is a
\*           snapshot, not None; dict: a 'size' key; object: a size attribute)
\*   size    that size; numeric says whether it is a number
\*   cid     the identifier key the order event / the payload carries:
\*           "contractId", "contract_id", "none", or "no_mapping" when the
\*           order event of an enriched wrapper is no mapping
\* An event without a size is written with size 0.
RuleSizes == {-5, 3}
CidKeys == {"contractId", "contract_id", "none"}
EventShapes ==
    [shape : {"enriched"}, hasSize : BOOLEAN, size : RuleSizes \cup {0},
     numeric : BOOLEAN, cid : CidKeys \cup {"no_mapping"}]
    \cup [shape : {"dict", "object"}, hasSize : BOOLEAN,
          size : RuleSizes \cup {0}, numeric : BOOLEAN, cid : CidKeys]
RuleEvents ==
    {e \in EventShapes : IF e.hasSize THEN e.size \in RuleSizes
                                      ELSE e.size = 0 /\ e.numeric}

\* MaxContractsRule._extract_position_data: ok is FALSE when the extraction
\* raised and None is returned.  The snapshot of an enriched wrapper stores
\* its contract under 'contract', so current_pos['contractId'] raises
\* KeyError when the order event holds neither contractId nor contract_id;
\* an order event that is no mapping has no get().
ExtractPositionData(ev) ==
    IF ev.shape = "enriched" /\ ev.hasSize THEN
        IF ev.cid \in {"contractId", "contract_id"} /\ ev.numeric
        THEN [ok |-> TRUE, size |-> Abs(ev.size), numeric |-> TRUE,
              contract |-> "id"]
        ELSE [ok |-> FALSE, size |-> 0, numeric |-> TRUE, contract |-> "unknown"]
    ELSE IF ev.shape = "enriched" THEN
        [ok |-> TRUE, size |-> 0, numeric |-> TRUE, contract |-> "unknown"]
    ELSE
        [ok |-> TRUE,
         size |-> IF ev.hasSize THEN ev.size ELSE 0,
         numeric |-> ev.hasSize => ev.numeric,
         contract |-> IF ev.cid = "none" THEN "unknown" ELSE "id"]

\* (mutant) the limit itself is a breach
ExceedsLimitInclusive(size, max_size) == Abs(size) >= max_size

\* the size test of MaxContractsRule.check
ExceedsLimit(size, max_size) == Abs(size) > max_size

\* What the rule is handed as trading_suite: None, an API client (no
\* subscripting), or a TradingSuite
ClientKinds == {"none", "client", "suite"}

\* what close_position_direct does when it is called: it reports success,
\* reports failure, or raises
CloseOutcomes == {"success", "failure", "raises"}

\* MaxContractsRule._auto_flatten: the number of close_position_direct calls.
\* None is refused, subscripting an API client raises before the call; the
\* outcome of the call is logged and nothing else.
AutoFlatten(client, outcome) == IF client = "suite" THEN 1 ELSE 0

\* (mutant) a breach whose mitigation did not succeed is taken back
HandleBreachUndone(r, client, outcome) ==
    IF r.auto_flatten /\ AutoFlatten(client, outcome) > 0 /\ outcome # "success"
    THEN [passed |-> TRUE, breach_count |-> r.breach_count,
          closes |-> AutoFlatten(client, outcome)]
    ELSE [passed |-> FALSE,
          breach_count |-> r.breach_count + 1,
          closes |-> IF r.auto_flatten THEN AutoFlatten(client, outcome) ELSE 0]

\* (mutant) a breach is reported and not counted by the rule
HandleBreachUncounted(r, client, outcome) ==
    [passed |-> FALSE,
     breach_count |-> r.breach_count,
     closes |-> IF r.auto_flatten THEN AutoFlatten(client, outcome) ELSE 0]

\* MaxContractsRule._handle_breach
HandleBreach(r, client, outcome) ==
    [passed |-> FALSE,
     breach_count |-> r.breach_count + 1,
     closes |-> IF r.auto_flatten THEN AutoFlatten(client, outcome) ELSE 0]

RulePass(r) == [passed |-> TRUE, breach_count |-> r.breach_count, closes |-> 0]

\* (mutant) an event whose size cannot be read is treated as a breach
CheckFailClosed(r, ev, client, outcome) ==
    IF ~r.enabled THEN RulePass(r)
    ELSE LET d == ExtractPositionData(ev) IN
         IF ~d.ok \/ ~d.numeric THEN HandleBreach(r, client, outcome)
         ELSE IF ExceedsLimit(d.size, r.max_size)
              THEN HandleBreach(r, client, outcome)
         ELSE RulePass(r)

\* MaxContractsRule.check: a size that is no number makes abs() raise, which
\* check catches
Check(r, ev, client, outcome) ==
    IF ~r.enabled THEN RulePass(r)
    ELSE LET d == ExtractPositionData(ev) IN
         IF ~d.ok \/ ~d.numeric THEN RulePass(r)
         ELSE IF ExceedsLimit(d.size, r.max_size)
              THEN HandleBreach(r, client, outcome)
         ELSE RulePass(r)

\* MaxContractsConfig() and MaxContractsRule.__init__
RuleNew(enabled, max_size, auto_flatten) ==
    [enabled |-> enabled, max_size |-> max_size, auto_flatten |-> auto_flatten,
     breach_count |-> 0]
RuleDefault == RuleNew(FALSE, MaxSizeCfg, FALSE)

NoEvent ==
    [shape |-> "none", hasSize |-> FALSE, size |-> 0, numeric |-> TRUE,
     cid |-> "none"]
CheckedInit ==
    [n |-> 0, ev |-> NoEvent, client |-> "none", passed |-> TRUE,
     countBefore |-> 0, closes |-> 0]

(***************************************************************************)
(* State                                                                   *)
(***************************************************************************)
TaskIds == {1, 2}   \* 1: _on_order_filled, 2: _on_order_filled_with_risk_check

TaskInit ==
    [pc |-> "idle", prev |-> None, cur |-> None, wake |-> 0,
     stale |-> FALSE, label |-> "none", counted |-> FALSE, error |-> FALSE,
     chk |-> 0, mk |-> 0, conf |-> None, risk |-> 0, age |-> 0,
     started |-> 0]

ListenerInit ==
    /\ now = 1
    /\ ticks = 0
    /\ broker = None
    /\ brokerChanges = 0
    /\ cache = None
    /\ cacheTs = 0
    /\ lastConfirmed = None
    /\ flatTs = 0
    /\ riskEnabled \in BOOLEAN
    /\ tasks = [t \in TaskIds |-> TaskInit]
    /\ tradeActions = [k \in ActionKeys |-> 0]
    /\ staleFiltered = 0
    /\ eventCounts = [order_filled |-> 0, position_updated |-> 0,
                      position_pnl_update |-> 0]
    /\ delivered = 0
    /\ lastPos = [size |-> 0, direction |-> "NONE", t |-> 0, outcome |-> "none",
                  confBefore |-> None, tsBefore |-> 0, ghostRun |-> 0,
                  ghosts |-> 0, closes |-> 0]
    /\ fillEv = [n |-> 0, staleInc |-> 0, bodies |-> 0]
    /\ engine = [eventsProcessed |-> 0, rulesChecked |-> 0,
                 breachesDetected |-> 0, breachCount |-> 0]

NoCall ==
    [t |-> 0, force |-> FALSE, ok |-> FALSE, ret |-> None, queried |-> FALSE,
     entryBefore |-> None, tsBefore |-> 0]

ClassifiedInit ==
    [prev |-> None, cur |-> None, first |-> "none", label |-> "none",
     calls |-> 0]
GetsInit == [n |-> 0, queries |-> 0, prev |-> NoCall, last |-> NoCall]
ScriptInit == [step |-> 0, gaps |-> 0, direction |-> "NONE"]

\* config file contents: the max_contracts entry of the rules mapping
ConfigMissing ==
    [kind |-> "missing", enabled |-> FALSE, max_size |-> MaxSizeCfg,
     auto_flatten |-> FALSE]
StatsZero ==
    [events_processed |-> 0, rules_checked |-> 0, breaches_detected |-> 0]
\* RuleEngine.__init__ (loads counts the initialize / reload_config calls,
\* lastLoad records the file the last of them read and the exception it
\* raised to its caller)
EngineNew ==
    [config |-> ConfigMissing, rules |-> << >>, stats |-> StatsZero,
     loads |-> 0, lastLoad |-> [file |-> ConfigMissing, raised |-> "none"]]
\* run_listener before it is awaited, and while it is listening
RunnerNew ==
    [pc |-> "start", suite |-> FALSE, stopAt |-> "none", pending |-> "none",
     disconnects |-> 0, disconnect |-> "none", summary |-> 0,
     phase |-> "sleep", exit |-> -1]
Listening == [RunnerNew EXCEPT !.pc = "loop", !.suite = TRUE]

EvaluatedInit ==
    [n |-> 0, via |-> "none", event_type |-> "none", ev |-> NoEvent,
     delivery |-> "none", logged |-> 0,
     client |-> "none", outcome |-> "none",
     rules_checked |-> 0, breaches |-> 0, ruleCloses |-> 0,
     handlerCloses |-> 0,
     rulesBefore |-> << >>, rulesAfter |-> << >>,
     statsBefore |-> StatsZero, statsAfter |-> StatsZero]

RulesInit ==
    /\ rule = RuleDefault
    /\ checked = CheckedInit
    /\ ruleEngine = EngineNew
    /\ configFile = ConfigMissing
    /\ evaluated = EvaluatedInit
    /\ runner = Listening

Init ==
    /\ ListenerInit
    /\ classified = ClassifiedInit
    /\ gets = GetsInit
    /\ script = ScriptInit
    /\ RulesInit

(***************************************************************************)
(* Environment                                                             *)
(***************************************************************************)

\* A handler that is running (not suspended in its propagation delay) runs
\* to its next suspension before the clock advances or another event is
\* handled; a live query is taken to end within the clock's resolution.
Quiescent ==
    \A t \in TaskIds : tasks[t].pc \in {"idle", "wait", "sleep", "done"}

\* the clock advances; a coroutine suspended in asyncio.sleep(0.1) is
\* resumed when its delay has elapsed
Advance(Steps) ==
    /\ Quiescent
    /\ \E d \in Steps :
        /\ \A t \in TaskIds : tasks[t].pc = "sleep" => now + d <= tasks[t].wake
        /\ now' = now + d
    /\ ticks' = ticks + 1
    /\ UNCHANGED <<broker, brokerChanges, cache, cacheTs, lastConfirmed, flatTs,
                   riskEnabled, tasks, tradeActions, staleFiltered, eventCounts,
                   delivered, lastPos, fillEv, engine>>

Tick ==
    /\ ticks < MaxTicks
    /\ Advance(TickSteps)
    /\ UNCHANGED probeVars

\* The ground-truth position changes at the broker, once per order fill.
\* The listener observes it only through a live query, so only a change
\* ahead of a handler step that may query is distinguished.
BrokerChange ==
    /\ brokerChanges < fillEv.n
    /\ \E t \in TaskIds : tasks[t].pc \in {"start", "sleep", "risk"}
    /\ \E p \in (BrokerPositions \cup {None}) \ {broker} : broker' = p
    /\ brokerChanges' = brokerChanges + 1
    /\ UNCHANGED <<now, ticks, cache, cacheTs, lastConfirmed, flatTs, riskEnabled,
                   tasks, tradeActions, staleFiltered, eventCounts, delivered,
                   lastPos, fillEv, engine>>
    /\ UNCHANGED probeVars

(***************************************************************************)
(* POSITION_UPDATED                                                        *)
(***************************************************************************)

\* RiskEventHandler.on_position_updated -> RuleEngine.process_event for the
\* Event wrapper the suite delivers: one loaded rule is checked; the rule
\* reads getattr(event, 'size', 0), which the wrapper does not have.
EngineAfterPositionEvent(e) ==
    [e EXCEPT !.eventsProcessed = @ + 1, !.rulesChecked = @ + 1]

\* _on_position_updated for the decoded event `ev`, `r` being what the
\* handler makes of it: what it does to the listener's own state
ReconcileWith(ev, r) ==
    /\ Quiescent
    /\  LET size == ev.size
            direction == ev.direction IN
        /\ lastConfirmed' = r.confirmed
        /\ flatTs' = r.flatTs
        /\ lastPos' = [size |-> size, direction |-> direction, t |-> now,
                       outcome |-> r.outcome, confBefore |-> lastConfirmed,
                       tsBefore |-> flatTs,
                       ghostRun |-> IF r.outcome = "ghost"
                                    THEN lastPos.ghostRun + 1 ELSE 0,
                       ghosts |-> IF r.outcome = "ghost"
                                  THEN lastPos.ghosts + 1 ELSE lastPos.ghosts,
                       closes |-> IF r.outcome = "manual_close"
                                  THEN lastPos.closes + 1 ELSE lastPos.closes]
    /\ eventCounts' = [eventCounts EXCEPT !.position_updated = @ + 1]
    /\ delivered' = delivered + 1
    /\ UNCHANGED <<now, ticks, broker, brokerChanges, cache, cacheTs, riskEnabled,
                   tasks, tradeActions, staleFiltered, fillEv>>

\* _on_position_updated for a decoded event with a numeric average price
HandlePositionReconcile(ev) ==
    ReconcileWith(ev, OnPositionUpdated(ev.size, ev.direction, now,
                                        lastConfirmed, flatTs))

\* a POSITION_UPDATED event delivered as an Event wrapper to
\* _on_position_updated and, when risk rules are active, to
\* RiskEventHandler.on_position_updated
HandlePositionUpdated(ev) ==
    /\ HandlePositionReconcile(ev)
    /\ engine' = IF riskEnabled THEN EngineAfterPositionEvent(engine) ELSE engine

PositionEvent(limit) ==
    /\ delivered < limit
    /\ \E ev \in EventPositions : HandlePositionUpdated(ev)
    /\ UNCHANGED probeVars

OnPositionEvent == PositionEvent(MaxEvents)

(***************************************************************************)
(* ORDER_FILLED                                                            *)
(***************************************************************************)

\* The event source delivers an order fill to the handlers registered for
\* ORDER_FILLED: _on_order_filled always, and after it
\* _on_order_filled_with_risk_check when risk rules are active.  Handlers of
\* one event kind run in arrival order without overlap.
EmitOrderFilled ==
    /\ \A t \in TaskIds : tasks[t].pc \in {"idle", "done"}
    /\ fillEv' = [fillEv EXCEPT !.n = @ + 1, !.staleInc = 0, !.bodies = 0]
    /\ tasks' = [t \in TaskIds |->
                    IF t = 1 THEN [TaskInit EXCEPT !.pc = "start"]
                    ELSE IF riskEnabled THEN [TaskInit EXCEPT !.pc = "wait"]
                    ELSE TaskInit]
    /\ delivered' = delivered + 1
    /\ UNCHANGED <<now, ticks, broker, brokerChanges, cache, cacheTs,
                   lastConfirmed, flatTs, riskEnabled, tradeActions,
                   staleFiltered, eventCounts, lastPos, engine>>

DeliverFill ==
    /\ delivered < MaxEvents
    /\ fillEv.n < MaxFills
    /\ EmitOrderFilled
    /\ UNCHANGED probeVars

\* The handler steps below take the set `Oks` of outcomes the live query may
\* have: TRUE for an answer, FALSE for a raised exception.

\* _on_order_filled up to its propagation delay: count the event and read the
\* "previous" snapshot
OrderFilledPrev(t, Oks) ==
    /\ tasks[t].pc = "start"
    /\ eventCounts' = [eventCounts EXCEPT !.order_filled = @ + 1]
    /\ \E ok \in Oks :
        LET g == GetCurrentPositionInfo(FALSE, ok, broker, cache, cacheTs, now) IN
        /\ cache' = g.entry
        /\ cacheTs' = g.ts
        /\ tasks' = [tasks EXCEPT ![t] =
                        [@ EXCEPT !.prev = g.ret, !.pc = "sleep",
                                  !.wake = now + PropagationDelay,
                                  !.age = now - g.ts]]
    /\ UNCHANGED <<now, ticks, broker, brokerChanges, lastConfirmed, flatTs,
                   riskEnabled, tradeActions, staleFiltered, delivered,
                   lastPos, fillEv, engine>>

\* _on_order_filled after the propagation delay: read the "current"
\* snapshot, test for a stale execution, classify and count the trade
OrderFilledBody(t, Oks) ==
    /\ tasks[t].pc = "sleep"
    /\ now >= tasks[t].wake
    /\ \E ok \in Oks :
        LET g == GetCurrentPositionInfo(FALSE, ok, broker, cache, cacheTs, now)
            r == FillBody(tasks[t].prev, g.ret, flatTs, now)
        IN
        /\ cache' = g.entry
        /\ cacheTs' = g.ts
        /\ tasks' = [u \in TaskIds |->
                        IF u = t
                        THEN [tasks[t] EXCEPT
                                  !.cur = g.ret, !.stale = r.stale,
                                  !.label = r.label, !.counted = r.counted,
                                  !.error = r.error, !.chk = now, !.mk = flatTs,
                                  !.conf = lastConfirmed,
                                  !.pc = IF t = 2 THEN "risk" ELSE "done"]
                        ELSE IF t = 1 /\ tasks[u].pc = "wait"
                        THEN [tasks[u] EXCEPT !.pc = "start"]
                        ELSE tasks[u]]
        /\ staleFiltered' = IF r.stale THEN staleFiltered + 1 ELSE staleFiltered
        /\ tradeActions' = IF r.counted
                           THEN [tradeActions EXCEPT ![r.label] = @ + 1]
                           ELSE tradeActions
        /\ fillEv' = [fillEv EXCEPT !.bodies = @ + 1,
                                    !.staleInc = IF r.stale THEN @ + 1 ELSE @]
    /\ UNCHANGED <<now, ticks, broker, brokerChanges, lastConfirmed, flatTs,
                   riskEnabled, eventCounts, delivered, lastPos, engine>>

\* RuleEngine.process_event('order_filled', enriched) with one loaded rule
EngineAfterFill(e, current_pos, hasCid) ==
    LET pass == RulePasses(ExtractEnrichedSize(current_pos, hasCid)) IN
    [e EXCEPT !.eventsProcessed = @ + 1, !.rulesChecked = @ + 1,
              !.breachesDetected = IF pass THEN @ ELSE @ + 1,
              !.breachCount = IF pass THEN @ ELSE @ + 1]

\* _on_order_filled_with_risk_check after _on_order_filled has returned: the
\* forced refresh, then the enriched event goes to
\* RiskEventHandler.on_order_filled
OrderFilledRiskCheck(t, Oks) ==
    /\ tasks[t].pc = "risk"
    /\ \E ok \in Oks, hasCid \in BOOLEAN :
        LET g == GetCurrentPositionInfo(TRUE, ok, broker, cache, cacheTs, now) IN
        /\ cache' = g.entry
        /\ cacheTs' = g.ts
        /\ engine' = EngineAfterFill(engine, g.ret, hasCid)
    /\ tasks' = [tasks EXCEPT ![t] = [@ EXCEPT !.pc = "done", !.risk = @ + 1]]
    /\ UNCHANGED <<now, ticks, broker, brokerChanges, lastConfirmed, flatTs,
                   riskEnabled, tradeActions, staleFiltered, eventCounts,
                   delivered, lastPos, fillEv>>

FillStart(t) == OrderFilledPrev(t, BOOLEAN) /\ UNCHANGED probeVars
FillWake(t) == OrderFilledBody(t, BOOLEAN) /\ UNCHANGED probeVars
RiskCheck(t) == OrderFilledRiskCheck(t, BOOLEAN) /\ UNCHANGED probeVars

FillStep ==
    \E t \in TaskIds :
        \/ FillStart(t)
        \/ FillWake(t)
        \/ RiskCheck(t)

Next ==
    \/ Tick
    \/ BrokerChange
    \/ OnPositionEvent
    \/ DeliverFill
    \/ FillStep

Spec == Init /\ [][Next]_vars

\* The listener with the clock advancing by the propagation delay (1), or
\* by 2 or 3: after a fill handled with a fresh cache entry these bring the
\* entry to the ages 3 and 4, on either side of TTL minus the delay.
TickAges ==
    /\ ticks < MaxTicks
    /\ Advance({1, 2, 3})
    /\ UNCHANGED probeVars

NextSnapshots ==
    \/ TickAges
    \/ BrokerChange
    \/ OnPositionEvent
    \/ DeliverFill
    \/ FillStep

SpecSnapshots == Init /\ [][NextSnapshots]_vars

(***************************************************************************)
(* ORDER_FILLED handlers suspended at their live queries                   *)
(*                                                                         *)
(* The handlers registered for ORDER_FILLED run as coroutines of their     *)
(* own; _get_current_position_info reads the clock, tests the cache and,   *)
(* on a miss, awaits the live query, so that another handler may run and   *)
(* the clock advance before the answer is stored.  A task's pc:            *)
(*   "start"  about to count the event and read the "previous" snapshot    *)
(*   "q1"     suspended at the live query of that read                     *)
(*   "sleep"  suspended in asyncio.sleep(0.1)                              *)
(*   "q2"     suspended at the live query of the "current" snapshot        *)
(*   "risk"   _on_order_filled has returned to the risk-check wrapper      *)
(*   "q3"     suspended at the live query of the forced refresh            *)
(* tasks[t].started is the clock value the suspended call read.            *)
(***************************************************************************)
\* the event source delivers an order fill; both registered handlers are
\* started on it
EmitConcurrent ==
    /\ delivered < MaxEvents
    /\ fillEv.n < MaxFills
    /\ \A t \in TaskIds : tasks[t].pc \in {"idle", "done"}
    /\ fillEv' = [fillEv EXCEPT !.n = @ + 1, !.staleInc = 0, !.bodies = 0]
    /\ tasks' = [t \in TaskIds |->
                    IF t = 1 \/ riskEnabled THEN [TaskInit EXCEPT !.pc = "start"]
                    ELSE TaskInit]
    /\ delivered' = delivered + 1
    /\ UNCHANGED <<now, ticks, broker, brokerChanges, cache, cacheTs,
                   lastConfirmed, flatTs, riskEnabled, tradeActions,
                   staleFiltered, eventCounts, lastPos, engine>>
    /\ UNCHANGED probeVars

\* the clock advances while handlers are suspended, at a query or in their
\* delay
TickConcurrent ==
    /\ ticks < MaxTicks
    /\ \A t \in TaskIds : tasks[t].pc \notin {"start", "risk"}
    /\ \E d \in {1, 4} :
        /\ \A t \in TaskIds : tasks[t].pc = "sleep" => now + d <= tasks[t].wake
        /\ now' = now + d
    /\ ticks' = ticks + 1
    /\ UNCHANGED <<broker, brokerChanges, cache, cacheTs, lastConfirmed, flatTs,
                   riskEnabled, tasks, tradeActions, staleFiltered, eventCounts,
                   delivered, lastPos, fillEv, engine>>
    /\ UNCHANGED probeVars

\* the ground truth changes while a handler is suspended
BrokerChangeConcurrent ==
    /\ brokerChanges < fillEv.n
    /\ \E t \in TaskIds : tasks[t].pc \in {"q1", "q2", "q3", "sleep"}
    /\ \E p \in (BrokerPositions \cup {None}) \ {broker} : broker' = p
    /\ brokerChanges' = brokerChanges + 1
    /\ UNCHANGED <<now, ticks, cache, cacheTs, lastConfirmed, flatTs, riskEnabled,
                   tasks, tradeActions, staleFiltered, eventCounts, delivered,
                   lastPos, fillEv, engine>>
    /\ UNCHANGED probeVars

\* _on_order_filled once its "previous" snapshot is there: it suspends in
\* the propagation delay
AfterFirstRead(t, ret, ts) ==
    /\ tasks' = [tasks EXCEPT ![t] =
                    [@ EXCEPT !.prev = ret, !.pc = "sleep",
                              !.wake = now + PropagationDelay,
                              !.age = now - ts]]
    /\ UNCHANGED <<tradeActions, staleFiltered, fillEv, engine>>

\* _on_order_filled once its "current" snapshot is there: the stale test,
\* the classification and the counters
AfterSecondRead(t, ret) ==
    LET r == FillBody(tasks[t].prev, ret, flatTs, now) IN
    /\ tasks' = [tasks EXCEPT ![t] =
                    [@ EXCEPT !.cur = ret, !.stale = r.stale,
                              !.label = r.label, !.counted = r.counted,
                              !.error = r.error, !.chk = now, !.mk = flatTs,
                              !.conf = lastConfirmed,
                              !.pc = IF t = 2 THEN "risk" ELSE "done"]]
    /\ staleFiltered' = IF r.stale THEN staleFiltered + 1 ELSE staleFiltered
    /\ tradeActions' = IF r.counted
                       THEN [tradeActions EXCEPT ![r.label] = @ + 1]
                       ELSE tradeActions
    /\ fillEv' = [fillEv EXCEPT !.bodies = @ + 1,
                                !.staleInc = IF r.stale THEN @ + 1 ELSE @]
    /\ UNCHANGED engine

\* a read with force_refresh=False begins: a hit returns the entry at once,
\* a miss suspends the handler at its live query
ReadBegins(t) ==
    /\ tasks[t].pc \in {"start", "sleep"}
    /\ tasks[t].pc = "sleep" => now >= tasks[t].wake
    /\ eventCounts' = IF tasks[t].pc = "start"
                      THEN [eventCounts EXCEPT !.order_filled = @ + 1]
                      ELSE eventCounts
    /\ IF CacheValid(FALSE, cache, cacheTs, now)
       THEN IF tasks[t].pc = "start" THEN AfterFirstRead(t, cache, cacheTs)
                                     ELSE AfterSecondRead(t, cache)
       ELSE /\ tasks' = [tasks EXCEPT ![t] =
                            [@ EXCEPT !.pc = IF @ = "start" THEN "q1" ELSE "q2",
                                      !.started = now]]
            /\ UNCHANGED <<tradeActions, staleFiltered, fillEv, engine>>
    /\ UNCHANGED <<now, ticks, broker, brokerChanges, cache, cacheTs,
                   lastConfirmed, flatTs, riskEnabled, delivered, lastPos>>
    /\ UNCHANGED probeVars

\* the forced refresh of _on_order_filled_with_risk_check begins
RefreshBegins(t) ==
    /\ tasks[t].pc = "risk"
    /\ tasks' = [tasks EXCEPT ![t] = [@ EXCEPT !.pc = "q3", !.started = now]]
    /\ UNCHANGED <<now, ticks, broker, brokerChanges, cache, cacheTs,
                   lastConfirmed, flatTs, riskEnabled, tradeActions,
                   staleFiltered, eventCounts, delivered, lastPos, fillEv,
                   engine>>
    /\ UNCHANGED probeVars

\* a live query ends: on success its result is stored, stamped with the
\* clock value read before the query was sent, and the handler goes on
QueryEnds(t) ==
    /\ tasks[t].pc \in {"q1", "q2", "q3"}
    /\ \E ok \in BOOLEAN, hasCid \in BOOLEAN :
        LET a == CacheAfterQuery(ok, broker, tasks[t].started, cache, cacheTs)
            ret == QueryReturn(ok, broker)
        IN
        /\ tasks[t].pc # "q3" => hasCid
        /\ cache' = a.entry
        /\ cacheTs' = a.ts
        /\ CASE tasks[t].pc = "q1" -> AfterFirstRead(t, ret, a.ts)
             [] tasks[t].pc = "q2" -> AfterSecondRead(t, ret)
             [] tasks[t].pc = "q3" ->
                  /\ engine' = EngineAfterFill(engine, ret, hasCid)
                  /\ tasks' = [tasks EXCEPT ![t] =
                                  [@ EXCEPT !.pc = "done", !.risk = @ + 1]]
                  /\ UNCHANGED <<tradeActions, staleFiltered, fillEv>>
    /\ UNCHANGED <<now, ticks, broker, brokerChanges, lastConfirmed, flatTs,
                   riskEnabled, eventCounts, delivered, lastPos>>
    /\ UNCHANGED probeVars

NextConcurrent ==
    \/ TickConcurrent
    \/ BrokerChangeConcurrent
    \/ EmitConcurrent
    \/ \E t \in TaskIds : ReadBegins(t)
    \/ \E t \in TaskIds : RefreshBegins(t)
    \/ \E t \in TaskIds : QueryEnds(t)

SpecConcurrent == Init /\ [][NextConcurrent]_vars

(***************************************************************************)
(* POSITION_PNL_UPDATE                                                     *)
(***************************************************************************)

\* (mutant) a P&L update re-confirms the position from the cached snapshot
OnPositionPnlUpdateConfirming ==
    /\ Quiescent
    /\ delivered < MaxEvents
    /\ eventCounts' = [eventCounts EXCEPT !.position_pnl_update = @ + 1]
    /\ delivered' = delivered + 1
    /\ lastConfirmed' = cache
    /\ UNCHANGED <<now, ticks, broker, brokerChanges, cache, cacheTs,
                   flatTs, riskEnabled, tasks, tradeActions,
                   staleFiltered, lastPos, fillEv, engine>>
    /\ UNCHANGED probeVars

\* _on_position_pnl_update: the event is counted and, every tenth time,
\* logged; no risk handler is registered for this event kind
OnPositionPnlUpdate ==
    /\ Quiescent
    /\ delivered < MaxEvents
    /\ eventCounts' = [eventCounts EXCEPT !.position_pnl_update = @ + 1]
    /\ delivered' = delivered + 1
    /\ UNCHANGED <<now, ticks, broker, brokerChanges, cache, cacheTs,
                   lastConfirmed, flatTs, riskEnabled, tasks, tradeActions,
                   staleFiltered, lastPos, fillEv, engine>>
    /\ UNCHANGED probeVars

\* the listener receiving all three event kinds
NextAllEvents ==
    \/ Tick
    \/ BrokerChange
    \/ OnPositionEvent
    \/ OnPositionPnlUpdate
    \/ DeliverFill
    \/ FillStep

SpecAllEvents == Init /\ [][NextAllEvents]_vars

(***************************************************************************)
(* Event payloads                                                          *)
(***************************************************************************)

\* The events the dispatcher hands to _on_position_updated, by the shape of
\* event.data:
\*   "mapping"  a dict, with or without a 'size' key
\*   "object"   an attribute-style object, with or without a size attribute
\*   "other"    a value of another kind (None, a string): no attribute is
\*              found on it
\*   "no_data"  the event has no data attribute at all
\* A payload that carries a size carries its position type as well.
Payloads ==
    [shape : {"mapping", "object"}, hasSize : {TRUE}, size : {0, 5}]
    \cup [shape : {"mapping", "object", "other", "no_data"},
          hasSize : {FALSE}, size : {0}]

\* EventListener._safe_get(position, 'size', default)
SafeGet(data, default) == IF data.hasSize THEN data.size ELSE default

\* _decode_position_type(_safe_get(position, 'type', 0)): the default 0 is
\* neither LONG nor SHORT
DecodePositionType(data) == IF data.hasSize THEN "LONG" ELSE "UNDEFINED"

\* _on_position_updated for an event whose data attribute is missing:
\* the event is counted, event.data raises AttributeError, and the except
\* branch raises it again when it logs event.data.  Whether the dispatcher
\* goes on to the risk handler registered for the same event is not decided
\* by this program.
HandlePositionNoData ==
    /\ Quiescent
    /\ eventCounts' = [eventCounts EXCEPT !.position_updated = @ + 1]
    /\ lastPos' = [lastPos EXCEPT !.size = 0, !.direction = "NONE", !.t = now,
                                  !.outcome = "raised",
                                  !.confBefore = lastConfirmed,
                                  !.tsBefore = flatTs, !.ghostRun = 0]
    /\ engine' \in {engine} \cup
                   (IF riskEnabled THEN {EngineAfterPositionEvent(engine)}
                                   ELSE {})
    /\ delivered' = delivered + 1
    /\ UNCHANGED <<now, ticks, broker, brokerChanges, cache, cacheTs,
                   lastConfirmed, flatTs, riskEnabled, tasks, tradeActions,
                   staleFiltered, fillEv>>

\* the dispatcher delivers a POSITION_UPDATED event of any payload shape
RawPositionEvent ==
    /\ delivered < MaxPosEvents
    /\ \E data \in Payloads :
          IF data.shape = "no_data" THEN HandlePositionNoData
          ELSE HandlePositionUpdated([size |-> SafeGet(data, 0),
                                      direction |-> DecodePositionType(data)])
    /\ UNCHANGED probeVars

NextPayload ==
    \/ Tick
    \/ RawPositionEvent

SpecPayload == Init /\ [][NextPayload]_vars

\* the position-update stream alone: no order fill is delivered
OnPositionEventAlone == PositionEvent(MaxPosEvents)

NextReopen ==
    \/ Tick
    \/ OnPositionEventAlone

SpecReopen == Init /\ [][NextReopen]_vars

\* the dispatcher delivers a POSITION_UPDATED event whose payload carries
\* its average price as a number or as text
PricedPositionEvent ==
    /\ delivered < MaxPosEvents
    /\ \E ev \in EventPositions, price \in {"number", "text"} :
        /\ ReconcileWith(ev, OnPositionUpdatedPriced(ev.size, ev.direction,
                                                     price, now, lastConfirmed,
                                                     flatTs))
        /\ engine' = IF riskEnabled THEN EngineAfterPositionEvent(engine)
                                    ELSE engine
    /\ UNCHANGED probeVars

NextPriced ==
    \/ Tick
    \/ PricedPositionEvent

SpecPriced == Init /\ [][NextPriced]_vars

(***************************************************************************)
(* The classifier called directly                                          *)
(***************************************************************************)
MaxCalls == 2       \* calls of the classifier on one pair

\* snapshots handed to the classifier: None, or a populated dict whose
\* direction is a decoded PositionType name
ClassifyDirections == {"LONG", "SHORT", "UNDEFINED"}
ClassifyInputs == [size : Sizes, direction : ClassifyDirections] \cup {None}

InitClassify ==
    /\ ListenerInit
    /\ \E p \in ClassifyInputs, c \in ClassifyInputs :
          classified = [ClassifiedInit EXCEPT !.prev = p, !.cur = c]
    /\ gets = GetsInit
    /\ script = ScriptInit
    /\ RulesInit

\* self._classify_trade_action(prev, cur, side) is called once more on the pair
Classify ==
    /\ classified.calls < MaxCalls
    /\ LET a == ClassifyTradeAction(classified.prev, classified.cur) IN
        classified' = [classified EXCEPT
                          !.label = a,
                          !.first = IF classified.calls = 0 THEN a ELSE @,
                          !.calls = @ + 1]
    /\ UNCHANGED <<now, ticks, broker, brokerChanges, cache, cacheTs,
                   lastConfirmed, flatTs, riskEnabled, tasks, tradeActions,
                   staleFiltered, eventCounts, delivered, lastPos, fillEv,
                   engine, gets, script, rulesVars, runner>>

NextClassify == Classify

SpecClassify == InitClassify /\ [][NextClassify]_vars

(***************************************************************************)
(* The snapshot cache called directly                                      *)
(***************************************************************************)
MaxGets == 3        \* calls of _get_current_position_info in a run

\* the ground-truth position changes between two calls
PositionsChange ==
    /\ brokerChanges < gets.n
    /\ gets.n < MaxGets
    /\ \E p \in (BrokerPositions \cup {None}) \ {broker} : broker' = p
    /\ brokerChanges' = brokerChanges + 1
    /\ UNCHANGED <<now, ticks, cache, cacheTs, lastConfirmed, flatTs, riskEnabled,
                   tasks, tradeActions, staleFiltered, eventCounts, delivered,
                   lastPos, fillEv, engine, classified, gets, script,
                   rulesVars, runner>>

\* one call of _get_current_position_info(force_refresh); its live query,
\* when one is sent, answers or raises
GetCall ==
    /\ gets.n < MaxGets
    /\ \E force_refresh \in BOOLEAN, ok \in BOOLEAN :
        LET g == GetCurrentPositionInfo(force_refresh, ok, broker, cache,
                                        cacheTs, now) IN
        /\ cache' = g.entry
        /\ cacheTs' = g.ts
        /\ gets' = [n |-> gets.n + 1,
                    queries |-> IF g.queried THEN gets.queries + 1
                                ELSE gets.queries,
                    prev |-> gets.last,
                    last |-> [t |-> now, force |-> force_refresh,
                              ok |-> g.queried /\ ok, ret |-> g.ret,
                              queried |-> g.queried, entryBefore |-> cache,
                              tsBefore |-> cacheTs]]
    /\ UNCHANGED <<now, ticks, broker, brokerChanges, lastConfirmed, flatTs,
                   riskEnabled, tasks, tradeActions, staleFiltered, eventCounts,
                   delivered, lastPos, fillEv, engine, classified, script,
                   rulesVars, runner>>

NextCache ==
    \/ Tick
    \/ PositionsChange
    \/ GetCall

SpecCache == Init /\ [][NextCache]_vars

(***************************************************************************)
(* MaxContractsRule called directly                                        *)
(***************************************************************************)
MaxChecks == 2      \* calls of MaxContractsRule.check in a run
MaxSizes == {2, 3}  \* configured limits

InitRule ==
    /\ ListenerInit
    /\ ~riskEnabled
    /\ classified = ClassifiedInit
    /\ gets = GetsInit
    /\ script = ScriptInit
    /\ \E e \in BOOLEAN, m \in MaxSizes, a \in BOOLEAN : rule = RuleNew(e, m, a)
    /\ checked = CheckedInit
    /\ ruleEngine = EngineNew
    /\ configFile = ConfigMissing
    /\ evaluated = EvaluatedInit
    /\ runner = Listening

\* rule.check(event, trading_suite)
RuleCheck ==
    /\ checked.n < MaxChecks
    /\ \E ev \in RuleEvents, client \in ClientKinds, outcome \in CloseOutcomes :
        LET c == Check(rule, ev, client, outcome) IN
        /\ rule' = [rule EXCEPT !.breach_count = c.breach_count]
        /\ checked' = [n |-> checked.n + 1, ev |-> ev, client |-> client,
                       passed |-> c.passed, countBefore |-> rule.breach_count,
                       closes |-> c.closes]
    /\ UNCHANGED <<now, ticks, broker, brokerChanges, cache, cacheTs,
                   lastConfirmed, flatTs, riskEnabled, tasks, tradeActions,
                   staleFiltered, eventCounts, delivered, lastPos, fillEv,
                   engine, classified, gets, script, ruleEngine, configFile,
                   evaluated, runner>>

NextRule == RuleCheck

SpecRule == InitRule /\ [][NextRule]_vars

(***************************************************************************)
(* RuleEngine and RiskEventHandler called directly                         *)
(***************************************************************************)
MaxLoads == 2       \* initialize / reload_config calls in a run
MaxEvals == 1       \* events processed by the engine in a run

\* contents of the configuration file: none, or a max_contracts entry that
\* is enabled (a disabled entry loads like no entry)
ConfigFiles ==
    {ConfigMissing}
    \cup [kind : {"ok"}, enabled : {TRUE}, max_size : MaxSizes,
          auto_flatten : BOOLEAN]

\* events the engine is given: they carry a numeric size; a mapping names
\* its contract, the order event of an enriched wrapper may not
EngineEvents ==
    {e \in RuleEvents :
        /\ e.hasSize /\ e.numeric
        /\ e.shape = "enriched" => e.cid \in {"contractId", "none"}
        /\ e.shape = "dict" => e.cid \in {"contractId", "contract_id"}
        /\ e.shape = "object" => e.cid = "contractId"}

\* files that are not a well-formed configuration:
\*   "unparseable"  json.load raises
\*   "not_mapping"  valid JSON whose top level is no mapping (a list)
\*   "no_max_size", "no_severity"  the enabled max_contracts entry lacks
\*                  the field
MalformedFiles ==
    [kind : {"unparseable", "not_mapping"}, enabled : {FALSE},
     max_size : {MaxSizeCfg}, auto_flatten : {FALSE}]
    \cup [kind : {"no_max_size"}, enabled : {TRUE}, max_size : {MaxSizeCfg},
          auto_flatten : BOOLEAN]
    \cup [kind : {"no_severity"}, enabled : {TRUE}, max_size : MaxSizes,
          auto_flatten : {FALSE}]

\* RuleEngine._load_config: the defaults for a missing file and for a file
\* json.load rejects, otherwise what json.load returned
LoadConfig(file) ==
    IF file.kind \in {"missing", "unparseable"} THEN ConfigMissing ELSE file

\* the exception _initialize_rules raises: self.config.get on a value that
\* is no mapping, a subscript with a key the enabled entry lacks
InitializeRaises(config) ==
    IF config.kind = "not_mapping" THEN "AttributeError"
    ELSE IF config.enabled /\ config.kind \in {"no_max_size", "no_severity"}
    THEN "KeyError"
    ELSE "none"

\* RuleEngine._initialize_rules: an enabled max_contracts entry adds a rule
InitializeRules(config, rules) ==
    IF InitializeRaises(config) # "none" THEN rules
    ELSE IF config.enabled
    THEN Append(rules, RuleNew(config.enabled, config.max_size,
                               config.auto_flatten))
    ELSE rules

\* RuleEngine.initialize and RuleEngine.reload_config
LoadAndInitialize(e, file) ==
    LET config == LoadConfig(file) IN
    [e EXCEPT !.config = config,
              !.rules = InitializeRules(config, e.rules),
              !.loads = @ + 1,
              !.lastLoad = [file |-> file, raised |-> InitializeRaises(config)]]

\* The loop of RuleEngine.process_event over the rules 1 .. n of rs: every
\* rule is checked on the event, each keeps its own breach counter.
CheckAll(rs, n, ev, client, outcome) ==
    LET c == [i \in 1..n |-> Check(rs[i], ev, client, outcome)] IN
    [rules |-> [i \in 1..Len(rs) |->
                   IF i <= n THEN [rs[i] EXCEPT !.breach_count = c[i].breach_count]
                   ELSE rs[i]],
     checked |-> n,
     breaches |-> Cardinality({i \in 1..n : ~c[i].passed}),
     closes |-> Cardinality({i \in 1..n : c[i].closes > 0}),
     autoBreaches |->
         Cardinality({i \in 1..n : ~c[i].passed /\ rs[i].auto_flatten})]

\* (mutant) the index at which a loop that ends at the first breach stops
FirstBreach(rs, ev, client, outcome) ==
    LET B == {i \in 1..Len(rs) : ~Check(rs[i], ev, client, outcome).passed} IN
    IF B = {} THEN Len(rs) ELSE CHOOSE i \in B : \A j \in B : i <= j

\* event kinds given to the engine directly (order fills reach it through
\* RiskEventHandler.on_order_filled)
EventTypes == {"position_updated", "position_pnl_update"}

\* what process_event returns and leaves behind, given the loop's result
Processed(e, event_type, c) ==
    IF event_type \notin {"position_updated", "order_filled"}
    THEN [engine |-> [e EXCEPT !.stats.events_processed = @ + 1],
          rules_checked |-> 0, breaches |-> 0, closes |-> 0,
          autoBreaches |-> 0]
    ELSE [engine |-> [e EXCEPT
                         !.rules = c.rules,
                         !.stats = [events_processed |-> @.events_processed + 1,
                                    rules_checked |-> @.rules_checked + c.checked,
                                    breaches_detected |->
                                        @.breaches_detected + c.breaches]],
          rules_checked |-> c.checked, breaches |-> c.breaches,
          closes |-> c.closes, autoBreaches |-> c.autoBreaches]

\* (mutant) process_event stopping at the first breach
ProcessEventUntilBreach(e, event_type, ev, client, outcome) ==
    Processed(e, event_type,
              CheckAll(e.rules, FirstBreach(e.rules, ev, client, outcome),
                       ev, client, outcome))

\* RuleEngine.process_event(event_type, event_data, api_client): the engine
\* has no trading_suite attribute, so each rule is handed api_client
ProcessEvent(e, event_type, ev, client, outcome) ==
    Processed(e, event_type,
              CheckAll(e.rules, Len(e.rules), ev, client, outcome))

\* (mutant) the handler hands the rules the suite itself
ApiClientSuite(hasSuite) == IF hasSuite THEN "suite" ELSE "none"

\* RiskEventHandler.api_client
ApiClient(hasSuite) == IF hasSuite THEN "client" ELSE "none"

\* The close_position_direct calls RiskEventHandler makes after
\* process_event, one for each breach of an auto-flattening rule:
\* on_position_updated needs the event's contractId, on_order_filled a
\* current_position snapshot of nonzero size; both need the suite.
HandlerCloses(via, ev, hasSuite, autoBreaches) ==
    IF via = "on_position_updated"
    THEN IF ev.shape # "enriched" /\ ev.cid = "contractId" /\ hasSuite
         THEN autoBreaches ELSE 0
    ELSE IF via = "on_order_filled"
    THEN IF ev.shape = "enriched" /\ ev.hasSize /\ ev.size # 0 /\ hasSuite
         THEN autoBreaches ELSE 0
    ELSE 0

InitEngine ==
    /\ ListenerInit
    /\ ~riskEnabled
    /\ classified = ClassifiedInit
    /\ gets = GetsInit
    /\ script = ScriptInit
    /\ rule = RuleDefault
    /\ checked = CheckedInit
    /\ ruleEngine = EngineNew
    /\ configFile \in ConfigFiles
    /\ evaluated = EvaluatedInit
    /\ runner = Listening

listenerVars ==
    <<now, ticks, broker, brokerChanges, cache, cacheTs, lastConfirmed, flatTs,
      riskEnabled, tasks, tradeActions, staleFiltered, eventCounts, delivered,
      lastPos, fillEv, engine>>

\* await engine.initialize()
Initialize ==
    /\ ruleEngine.loads = 0
    /\ ruleEngine' = LoadAndInitialize(ruleEngine, configFile)
    /\ UNCHANGED <<listenerVars, runner, classified, gets, script, rule, checked,
                   configFile, evaluated>>

\* await engine.reload_config()
ReloadConfig ==
    /\ ruleEngine.loads > 0
    /\ ruleEngine.loads < MaxLoads
    /\ ruleEngine' = LoadAndInitialize(ruleEngine, configFile)
    /\ UNCHANGED <<listenerVars, runner, classified, gets, script, rule, checked,
                   configFile, evaluated>>

\* the configuration file is edited after the engine has loaded it
EditConfigFile ==
    /\ ruleEngine.loads > 0
    /\ ruleEngine.loads < MaxLoads
    /\ ruleEngine.config = LoadConfig(configFile)
    /\ \E f \in ConfigFiles \ {configFile} : configFile' = f
    /\ UNCHANGED <<listenerVars, runner, classified, gets, script, rule, checked,
                   ruleEngine, evaluated>>

\* An event goes through the engine, called directly (`via` = "engine") or by
\* RiskEventHandler.on_position_updated / on_order_filled (`logged` is the
\* size on_position_updated writes to its log).  The client and
\* the suite are told apart when a rule or the handler consults them (an
\* auto-flattening rule is in breach), the outcomes of the close action when
\* it was invoked.
Evaluate(via, event_type, ev, client, hasSuite, outcome) ==
    /\ ruleEngine.loads > 0
    /\ evaluated.n < MaxEvals
    /\ \E p \in {ProcessEvent(ruleEngine, event_type, ev, client, outcome)} :
       \E h \in {HandlerCloses(via, ev, hasSuite, p.autoBreaches)} :
        /\ p.closes + h = 0 => outcome = "success"
        /\ ruleEngine' = p.engine
        /\ evaluated' =
              [n |-> evaluated.n + 1, via |-> via, event_type |-> event_type,
               ev |-> ev, delivery |-> "direct",
               logged |-> IF via = "on_position_updated" /\ ev.hasSize
                          THEN ev.size ELSE 0,
               client |-> client,
               outcome |-> IF p.closes + h > 0 THEN outcome ELSE "none",
               rules_checked |-> p.rules_checked, breaches |-> p.breaches,
               ruleCloses |-> p.closes, handlerCloses |-> h,
               rulesBefore |-> ruleEngine.rules, rulesAfter |-> p.engine.rules,
               statsBefore |-> ruleEngine.stats,
               statsAfter |-> p.engine.stats]
    /\ UNCHANGED <<listenerVars, runner, classified, gets, script, rule, checked,
                   configFile>>

\* whether the event puts an auto-flattening rule of the engine in breach
Consulted(event_type, ev) ==
    ProcessEvent(ruleEngine, event_type, ev, "none", "success").autoBreaches > 0

\* await engine.process_event(event_type, event, api_client) with a position
\* payload mapping
EngineProcessEvent ==
    /\ evaluated.n < MaxEvals
    /\ \E event_type \in EventTypes,
          ev \in {e \in EngineEvents : e.shape = "dict"} :
       \E client \in IF Consulted(event_type, ev) THEN ClientKinds ELSE {"none"},
          outcome \in IF Consulted(event_type, ev) THEN CloseOutcomes
                                                  ELSE {"success"} :
        Evaluate("engine", event_type, ev, client, FALSE, outcome)

\* RiskEventHandler.on_position_updated(event)
RiskOnPositionUpdated ==
    /\ evaluated.n < MaxEvals
    /\ \E ev \in {e \in EngineEvents : e.shape # "enriched"} :
       \E hasSuite \in IF Consulted("position_updated", ev) THEN BOOLEAN
                                                            ELSE {FALSE},
          outcome \in IF Consulted("position_updated", ev) THEN CloseOutcomes
                                                           ELSE {"success"} :
        Evaluate("on_position_updated", "position_updated", ev,
                 ApiClient(hasSuite), hasSuite, outcome)

\* RiskEventHandler.on_order_filled(enriched_event)
RiskOnOrderFilled ==
    /\ evaluated.n < MaxEvals
    /\ \E ev \in {e \in EngineEvents : e.shape = "enriched"} :
       \E hasSuite \in IF Consulted("order_filled", ev) THEN BOOLEAN
                                                        ELSE {FALSE},
          outcome \in IF Consulted("order_filled", ev) THEN CloseOutcomes
                                                       ELSE {"success"} :
        Evaluate("on_order_filled", "order_filled", ev,
                 ApiClient(hasSuite), hasSuite, outcome)

\* await engine.reset_stats()
ResetStats ==
    /\ ruleEngine.loads > 0
    /\ ruleEngine' = [ruleEngine EXCEPT !.stats = StatsZero]
    /\ UNCHANGED <<listenerVars, runner, classified, gets, script, rule, checked,
                   configFile, evaluated>>

\* await rule.reset() on a loaded rule
RuleReset ==
    /\ \E i \in 1..Len(ruleEngine.rules) :
          ruleEngine' = [ruleEngine EXCEPT !.rules[i].breach_count = 0]
    /\ UNCHANGED <<listenerVars, runner, classified, gets, script, rule, checked,
                   configFile, evaluated>>

NextEngine ==
    \/ Initialize
    \/ ReloadConfig
    \/ EditConfigFile
    \/ EngineProcessEvent
    \/ RiskOnPositionUpdated
    \/ RiskOnOrderFilled

SpecEngine == InitEngine /\ [][NextEngine]_vars

\* a session in which the counters are also reset
NextSession ==
    \/ Initialize
    \/ RiskOnPositionUpdated
    \/ ResetStats
    \/ RuleReset

SpecSession == InitEngine /\ [][NextSession]_vars

\* the engine started on any file, well-formed or not
InitLoad ==
    /\ ListenerInit
    /\ ~riskEnabled
    /\ classified = ClassifiedInit
    /\ gets = GetsInit
    /\ script = ScriptInit
    /\ rule = RuleDefault
    /\ checked = CheckedInit
    /\ ruleEngine = EngineNew
    /\ configFile \in ConfigFiles \cup MalformedFiles
    /\ evaluated = EvaluatedInit
    /\ runner = Listening

\* the configuration file is overwritten with malformed contents
CorruptConfigFile ==
    /\ ruleEngine.loads > 0
    /\ ruleEngine.loads < MaxLoads
    /\ ruleEngine.lastLoad.file = configFile
    /\ \E f \in MalformedFiles \ {configFile} : configFile' = f
    /\ UNCHANGED <<listenerVars, runner, classified, gets, script, rule, checked,
                   ruleEngine, evaluated>>

NextLoad ==
    \/ Initialize
    \/ ReloadConfig
    \/ EditConfigFile
    \/ CorruptConfigFile

SpecLoad == InitLoad /\ [][NextLoad]_vars

(***************************************************************************)
(* Position events reaching the listener and its risk handler              *)
(***************************************************************************)

\* How a position event reaches RiskEventHandler.on_position_updated: as the
\* Event wrapper an event bus delivers, the payload mapping being its data
\* attribute, or as the payload mapping itself (a callback of the position
\* manager, a direct call).  The mapping holds size and contractId.
Deliveries == {"wrapper", "dict"}

\* the size RiskEventHandler.on_position_updated logs in its "Position size
\* check" line: event.get('size') of a mapping, event.data.get('size') of a
\* wrapper
HandlerSize(shape, size) == size

\* the event as MaxContractsRule._extract_position_data reads it: the mapping
\* itself, or the wrapper, an object that has no position, new_position,
\* size or contractId attribute
RuleView(shape, size) ==
    IF shape = "dict"
    THEN [shape |-> "dict", hasSize |-> TRUE, size |-> size, numeric |-> TRUE,
          cid |-> "contractId"]
    ELSE [shape |-> "object", hasSize |-> FALSE, size |-> 0, numeric |-> TRUE,
          cid |-> "none"]

\* the event as the breach handling of on_position_updated reads it: the
\* contractId of the mapping or of event.data
HandlerView(shape, size) ==
    [shape |-> "dict", hasSize |-> TRUE, size |-> size, numeric |-> TRUE,
     cid |-> "contractId"]

\* the listener after setup_suite with risk rules enabled: the engine has
\* loaded its configuration file and the handlers are registered
InitRisk ==
    /\ ListenerInit
    /\ riskEnabled
    /\ classified = ClassifiedInit
    /\ gets = GetsInit
    /\ script = ScriptInit
    /\ rule = RuleDefault
    /\ checked = CheckedInit
    /\ configFile \in ConfigFiles
    /\ ruleEngine = LoadAndInitialize(EngineNew, configFile)
    /\ evaluated = EvaluatedInit
    /\ runner = Listening

\* One POSITION_UPDATED event goes to _on_position_updated and to
\* RiskEventHandler.on_position_updated, which was created with the suite
\* and hands its client to the engine.  The two handlers share no state.
RiskPositionEvent ==
    /\ delivered < MaxEvents
    /\ \E ev \in EventPositions, shape \in Deliveries, outcome \in CloseOutcomes :
        /\ HandlePositionReconcile(ev)
        /\ \E p \in {ProcessEvent(ruleEngine, "position_updated",
                                   RuleView(shape, ev.size), ApiClient(TRUE),
                                   outcome)} :
           \E h \in {HandlerCloses("on_position_updated",
                                    HandlerView(shape, ev.size), TRUE,
                                    p.autoBreaches)} :
            /\ p.closes + h = 0 => outcome = "success"
            /\ ruleEngine' = p.engine
            /\ evaluated' =
                  [n |-> evaluated.n + 1, via |-> "on_position_updated",
                   event_type |-> "position_updated",
                   ev |-> RuleView(shape, ev.size),
                   delivery |-> shape,
                   logged |-> HandlerSize(shape, ev.size),
                   client |-> ApiClient(TRUE),
                   outcome |-> IF p.closes + h > 0 THEN outcome ELSE "none",
                   rules_checked |-> p.rules_checked, breaches |-> p.breaches,
                   ruleCloses |-> p.closes, handlerCloses |-> h,
                   rulesBefore |-> ruleEngine.rules,
                   rulesAfter |-> p.engine.rules,
                   statsBefore |-> ruleEngine.stats,
                   statsAfter |-> p.engine.stats]
    /\ UNCHANGED <<engine, classified, gets, script, rule, checked, configFile,
                   runner>>

NextRisk ==
    \/ Tick
    \/ RiskPositionEvent

SpecRisk == InitRisk /\ [][NextRisk]_vars

(***************************************************************************)
(* run_listener and the program's entry point                              *)
(*                                                                         *)
(* runner.pc    "start"    run_listener awaits setup_suite                 *)
(*              "loop"     the status loop runs, events are handled        *)
(*              "finally"  the try block was left, cleanup begins          *)
(*              "summary"  the disconnect attempt is over                  *)
(*              "returned" run_listener returned                           *)
(*              "raised"   run_listener re-raised the startup exception    *)
(*              "exited"   the process has ended with status runner.exit   *)
(* runner.suite      self.suite is set                                     *)
(* runner.stopAt     where the stop signal was caught                      *)
(* runner.pending    the exception `except Exception: raise` re-raises     *)
(* runner.phase      "sleep" in asyncio.sleep(10) of the status loop,      *)
(*                   "report" in its three log calls                       *)
(***************************************************************************)
MaxBrokerMoves == 1      \* ground-truth changes while listening

\* await self.setup_suite(): the suite is created and the handlers are
\* registered; or TradingSuite.create (self.suite still None) or a later
\* step (self.suite set) raises; or the stop signal arrives meanwhile
SetupSuite ==
    /\ runner.pc = "start"
    /\ \E outcome \in {"ok", "fails", "cancelled"}, created \in BOOLEAN :
        /\ outcome = "ok" => created
        /\ runner' = [runner EXCEPT
                         !.suite = created,
                         !.pc = IF outcome = "ok" THEN "loop" ELSE "finally",
                         !.pending = IF outcome = "fails" THEN "Exception"
                                                         ELSE "none",
                         !.stopAt = IF outcome = "cancelled" THEN "setup"
                                                             ELSE "none"]
    /\ UNCHANGED <<listenerVars, classified, gets, script, rule, checked,
                   ruleEngine, configFile, evaluated>>

\* KeyboardInterrupt / asyncio.CancelledError reaches the status loop
StopSignal ==
    /\ runner.pc = "loop"
    /\ runner' = [runner EXCEPT !.pc = "finally", !.stopAt = "loop"]
    /\ UNCHANGED <<listenerVars, classified, gets, script, rule, checked,
                   ruleEngine, configFile, evaluated>>

\* the status loop wakes from await asyncio.sleep(10)
LoopWake ==
    /\ runner.pc = "loop"
    /\ runner.phase = "sleep"
    /\ runner' = [runner EXCEPT !.phase = "report"]
    /\ UNCHANGED <<listenerVars, classified, gets, script, rule, checked,
                   ruleEngine, configFile, evaluated>>

\* the status loop reports (log_connection_status, log_event_summary,
\* log_risk_status: they read the counters and the confirmed position and
\* write nothing) and goes back to sleep
StatusCheck ==
    /\ runner.pc = "loop"
    /\ runner.phase = "report"
    /\ runner' = [runner EXCEPT !.phase = "sleep"]
    /\ UNCHANGED <<listenerVars, classified, gets, script, rule, checked,
                   ruleEngine, configFile, evaluated>>

\* (mutant) an exception of the disconnect leaves run_listener
DisconnectPropagating ==
    /\ runner.pc = "finally"
    /\ IF runner.suite
       THEN \E o \in {"ok", "raised"} :
               runner' = [runner EXCEPT
                             !.disconnects = @ + 1, !.disconnect = o,
                             !.pending = IF o = "raised" THEN "Exception" ELSE @,
                             !.pc = IF o = "raised" THEN "raised" ELSE "summary"]
       ELSE runner' = [runner EXCEPT !.pc = "summary"]
    /\ UNCHANGED <<listenerVars, classified, gets, script, rule, checked,
                   ruleEngine, configFile, evaluated>>

\* the finally block: await self.suite.disconnect() when the suite is set;
\* an exception of the disconnect is logged
Disconnect ==
    /\ runner.pc = "finally"
    /\ IF runner.suite
       THEN \E o \in {"ok", "raised"} :
               runner' = [runner EXCEPT
                             !.disconnects = @ + 1, !.disconnect = o,
                             !.pc = "summary"]
       ELSE runner' = [runner EXCEPT !.pc = "summary"]
    /\ UNCHANGED <<listenerVars, classified, gets, script, rule, checked,
                   ruleEngine, configFile, evaluated>>

\* the finally block: the final event summary; then run_listener returns,
\* or the exception of the startup goes on to the caller
FinalSummary ==
    /\ runner.pc = "summary"
    /\ runner' = [runner EXCEPT
                     !.summary = @ + 1,
                     !.pc = IF runner.pending = "none" THEN "returned"
                                                       ELSE "raised"]
    /\ UNCHANGED <<listenerVars, classified, gets, script, rule, checked,
                   ruleEngine, configFile, evaluated>>

\* the entry point after asyncio.run: `except KeyboardInterrupt` logs;
\* `except Exception` and `else` wait in input(), which returns, or raises
\* EOFError when standard input is closed; the script then ends (status 0)
\* or dies of the EOFError (status 1)
MainExit ==
    /\ runner.pc \in {"returned", "raised"}
    /\ \E branch \in (IF runner.pc = "raised" THEN {"except"}
                       ELSE {"else", "KeyboardInterrupt"}),
          eof \in BOOLEAN :
        /\ branch = "KeyboardInterrupt" => ~eof
        /\ runner' = [runner EXCEPT !.pc = "exited",
                                     !.exit = IF eof THEN 1 ELSE 0]
    /\ UNCHANGED <<listenerVars, classified, gets, script, rule, checked,
                   ruleEngine, configFile, evaluated>>

\* the ground-truth position changes at the broker
BrokerMoves ==
    /\ brokerChanges < MaxBrokerMoves
    /\ \E p \in (BrokerPositions \cup {None}) \ {broker} : broker' = p
    /\ brokerChanges' = brokerChanges + 1
    /\ UNCHANGED <<now, ticks, cache, cacheTs, lastConfirmed, flatTs, riskEnabled,
                   tasks, tradeActions, staleFiltered, eventCounts, delivered,
                   lastPos, fillEv, engine>>
    /\ UNCHANGED probeVars

\* the reopen window passes
WindowPasses ==
    /\ ticks < MaxTicks
    /\ Advance({IgnoreReopenWindow})
    /\ UNCHANGED probeVars

\* while the status loop runs the clock advances, the broker's position
\* moves and position updates are handled
Listen ==
    /\ runner.pc = "loop"
    /\ \/ WindowPasses
       \/ BrokerMoves
       \/ OnPositionEvent

InitRun ==
    /\ ListenerInit
    /\ classified = ClassifiedInit
    /\ gets = GetsInit
    /\ script = ScriptInit
    /\ rule = RuleDefault
    /\ checked = CheckedInit
    /\ ruleEngine = EngineNew
    /\ configFile = ConfigMissing
    /\ evaluated = EvaluatedInit
    /\ runner = RunnerNew

NextRun ==
    \/ SetupSuite
    \/ Listen
    \/ LoopWake
    \/ StatusCheck
    \/ StopSignal
    \/ Disconnect
    \/ FinalSummary
    \/ MainExit

\* The event loop keeps running a coroutine that is ready: the status loop
\* wakes from its sleep, the finally block and the entry point run to
\* their end (the disconnect returns or raises).
SpecRun ==
    /\ InitRun
    /\ [][NextRun]_vars
    /\ WF_vars(LoopWake)
    /\ WF_vars(StatusCheck)
    /\ WF_vars(Disconnect)
    /\ WF_vars(FinalSummary)
    /\ WF_vars(MainExit)

(***************************************************************************)
(* The end-to-end event sequence                                           *)
(*   fill that opens size 5, position update size 5, position update       *)
(*   size 0, fill arriving 0.8 after the close while the broker still      *)
(*   reports size 5                                                        *)
(* with every live query answered.                                         *)
(***************************************************************************)
MaxGapTicks == 2    \* clock advances between the events of the sequence

AllReturned == \A t \in TaskIds : tasks[t].pc \in {"idle", "done"}

\* the event source delivers the fill of the opening order
E2EOpeningFill ==
    /\ script.step = 0
    /\ EmitOrderFilled
    /\ script' = [script EXCEPT !.step = 1]
    /\ UNCHANGED <<classified, gets, rulesVars, runner>>

\* the broker reports the opened position while _on_order_filled is in its
\* propagation delay
E2EBrokerOpens ==
    /\ script.step = 1
    /\ tasks[1].pc = "sleep"
    /\ \E d \in Directions :
        /\ broker' = [size |-> 5, direction |-> d]
        /\ script' = [script EXCEPT !.step = 2, !.direction = d]
    /\ brokerChanges' = brokerChanges + 1
    /\ UNCHANGED <<now, ticks, cache, cacheTs, lastConfirmed, flatTs, riskEnabled,
                   tasks, tradeActions, staleFiltered, eventCounts, delivered,
                   lastPos, fillEv, engine, classified, gets, rulesVars, runner>>

\* a step of a running ORDER_FILLED handler
E2EHandlerStep ==
    /\ \E t \in TaskIds :
        \/ OrderFilledPrev(t, {TRUE})
        \/ script.step # 1 /\ OrderFilledBody(t, {TRUE})
        \/ OrderFilledRiskCheck(t, {TRUE})
    /\ UNCHANGED probeVars

\* the propagation delay of a suspended handler elapses
E2EDelay ==
    /\ \E t \in TaskIds : tasks[t].pc = "sleep"
    /\ Advance({PropagationDelay})
    /\ UNCHANGED probeVars

\* time passes between the opening fill, the position update and the close
E2EGap ==
    /\ script.step \in {2, 3}
    /\ AllReturned
    /\ script.gaps < MaxGapTicks
    /\ Advance(TickSteps)
    /\ script' = [script EXCEPT !.gaps = @ + 1]
    /\ UNCHANGED <<classified, gets, rulesVars, runner>>

\* position update with the opened size
E2EPositionOpens ==
    /\ script.step = 2
    /\ AllReturned
    /\ HandlePositionUpdated([size |-> 5, direction |-> script.direction])
    /\ script' = [script EXCEPT !.step = 3]
    /\ UNCHANGED <<classified, gets, rulesVars, runner>>

\* position update with size 0: the manual close
E2EManualClose ==
    /\ script.step = 3
    /\ HandlePositionUpdated([size |-> 0, direction |-> script.direction])
    /\ script' = [script EXCEPT !.step = 4]
    /\ UNCHANGED <<classified, gets, rulesVars, runner>>

\* 0.8 passes after the close
E2EWait ==
    /\ script.step = 4
    /\ Advance({8})
    /\ script' = [script EXCEPT !.step = 5]
    /\ UNCHANGED <<classified, gets, rulesVars, runner>>

\* the event source delivers the late fill
E2EStaleFill ==
    /\ script.step = 5
    /\ EmitOrderFilled
    /\ script' = [script EXCEPT !.step = 6]
    /\ UNCHANGED <<classified, gets, rulesVars, runner>>

NextE2E ==
    \/ E2EOpeningFill
    \/ E2EBrokerOpens
    \/ E2EHandlerStep
    \/ E2EDelay
    \/ E2EGap
    \/ E2EPositionOpens
    \/ E2EManualClose
    \/ E2EWait
    \/ E2EStaleFill

SpecE2E == Init /\ [][NextE2E]_vars

(***************************************************************************)
(* Properties of the stale/ghost filter                                    *)
(***************************************************************************)

\* a handler run of the current fill has finished the body of _on_order_filled
BodyDone(t) == tasks[t].pc \in {"risk", "done"}

\* every handler registered for the current fill has returned
FillHandled ==
    /\ fillEv.n > 0
    /\ \A t \in TaskIds : tasks[t].pc \in {"idle", "done"}

C2_GhostLeavesStateAlone ==
    lastPos.outcome = "ghost" =>
        /\ lastConfirmed = lastPos.confBefore
        /\ flatTs = lastPos.tsBefore

\* two consecutive ghost reopens, the second later than the marker
C2_Witness ==
    /\ lastPos.outcome = "ghost"
    /\ lastPos.ghostRun >= 2
    /\ lastPos.t > flatTs

\* C3: an order fill is classified stale exactly when a manual-close marker
\* exists, the time since the marker read after the propagation delay is
\* below the window, and the snapshot read after the delay is present with a
\* nonzero size.
C3_StaleIff ==
    \A t \in TaskIds :
        BodyDone(t) =>
            (tasks[t].stale <=>
                /\ tasks[t].mk # 0
                /\ tasks[t].chk - tasks[t].mk < IgnoreReopenWindow
                /\ Truthy(tasks[t].cur)
                /\ tasks[t].cur.size # 0)

\* a fill classified stale some time after the manual close
C3_Witness ==
    \E t \in TaskIds :
        /\ BodyDone(t)
        /\ tasks[t].stale
        /\ tasks[t].chk > tasks[t].mk
        /\ staleFiltered >= 1

\* C4: each order fill delivered by the event source that is classified
\* stale adds exactly 1 to staleExecutionsFiltered, with risk rules enabled
\* or disabled, and the confirmed position is flat.
C4_StaleCountedOnce ==
    (FillHandled /\ \E t \in TaskIds : tasks[t].stale) =>
        /\ fillEv.staleInc = 1
        /\ \A t \in TaskIds : tasks[t].stale => tasks[t].conf.size = 0

\* C5: when an order fill is classified stale, its handling stops: no trade
\* action is classified for it and the risk rule engine is not invoked for
\* it, also with risk rules enabled.
C5_StaleStopsProcessing ==
    \A t \in TaskIds :
        tasks[t].stale => tasks[t].label = "none" /\ tasks[t].risk = 0

\* C8: for every order fill that is not stale, whatever label the classifier
\* returns, the counter of that label is incremented and the trade is
\* reported; the handler does not end in its error path.
C8_EveryLabelCounted ==
    \A t \in TaskIds :
        (BodyDone(t) /\ ~tasks[t].stale) => tasks[t].counted

\* the end-to-end sequence has been delivered and handled
E2EDone == script.step = 6 /\ FillHandled

\* C6: after the end-to-end sequence (opening fill of size 5, position update
\* size 5, position update size 0, fill 0.8 after the close while the
\* snapshot shows size 5) exactly one trade action is counted, an Open; one
\* manual close was emitted; staleExecutionsFiltered is 1; the confirmed
\* position is flat; with risk rules enabled or disabled.
C6_EndToEndTotals ==
    E2EDone =>
        /\ tradeActions = [k \in ActionKeys |-> IF k = "Open" THEN 1 ELSE 0]
        /\ lastPos.closes = 1
        /\ staleFiltered = 1
        /\ lastConfirmed.size = 0

(***************************************************************************)
(* Properties of the classifier                                            *)
(***************************************************************************)

\* the decision table of the classifier, its rows read in order
Present(pos) == pos # None
DecisionTable(prev, curr) ==
    CASE ~Present(prev) /\ Present(curr) -> "Open"
      [] Present(prev) /\ ~Present(curr) -> "Close"
      [] ~Present(prev) /\ ~Present(curr) -> "Unknown"
      [] OTHER ->
           CASE prev.size = 0 /\ curr.size > 0 -> "Open"
             [] prev.size > 0 /\ curr.size = 0 -> "Close"
             [] OTHER ->
                  IF prev.direction # curr.direction THEN "Flip"
                  ELSE IF curr.size > prev.size THEN "Add"
                  ELSE IF curr.size < prev.size THEN "Reduce"
                  ELSE "Adjust"

\* C7: for every pair of snapshots the classifier returns one of its seven
\* labels, the one the ordered decision table gives (absent/present rows
\* first, then the zero-size rows ahead of direction, then Add / Reduce /
\* Adjust for one direction and Flip for two, Unknown for two absent
\* snapshots); a repeated call on the pair returns the same label and no
\* listener state is written.
C7_ClassifierMatchesTable ==
    classified.calls > 0 =>
        /\ classified.label \in Labels
        /\ classified.label = DecisionTable(classified.prev, classified.cur)
        /\ classified.first = classified.label
        /\ tradeActions = [k \in ActionKeys |-> 0]
        /\ cache = None /\ lastConfirmed = None /\ flatTs = 0

\* a zero-size previous snapshot and a nonzero current one of the other
\* direction, classified twice: Open, not Flip
C7_Witness ==
    /\ classified.calls = MaxCalls
    /\ Present(classified.prev) /\ Present(classified.cur)
    /\ classified.prev.size = 0 /\ classified.cur.size > 0
    /\ classified.prev.direction # classified.cur.direction
    /\ classified.label = "Open"

(***************************************************************************)
(* Properties of the snapshot cache                                        *)
(***************************************************************************)

\* C9: of two consecutive unforced calls less than the TTL apart, the first
\* of which stored the result of its query, the second returns the value the
\* first returned and sends no query of its own, whatever the result of the
\* first was, "no position" included.
C9_SecondCallServedFromCache ==
    ( /\ gets.n >= 2
      /\ ~gets.prev.force /\ ~gets.last.force
      /\ gets.prev.queried /\ gets.prev.ok
      /\ gets.last.t - gets.prev.t < CacheTtl )
    => /\ gets.last.ret = gets.prev.ret
       /\ ~gets.last.queried

\* C10: a call whose live query raises returns the value the cache held
\* (absent when nothing was cached) and leaves the cache entry and its
\* timestamp as they were.
C10_FailureReturnsLastKnown ==
    (gets.n >= 1 /\ gets.last.queried /\ ~gets.last.ok) =>
        /\ gets.last.ret = gets.last.entryBefore
        /\ cache = gets.last.entryBefore
        /\ cacheTs = gets.last.tsBefore

\* the last call had to refresh: it was forced, or the entry it found was at
\* least the TTL old
MustRefresh(call) == call.force \/ call.t - call.tsBefore >= CacheTtl

\* C11: a forced call, and an unforced call that finds an entry at least the
\* TTL old, sends a live query; when the query answers, the cache holds the
\* answer stamped with the time of the call, and an unforced call less than
\* the TTL later returns that answer.
C11_RefreshReplacesEntry ==
    /\ (gets.n >= 1 /\ MustRefresh(gets.last)) =>
          /\ gets.last.queried
          /\ gets.last.ok => (cache = gets.last.ret /\ cacheTs = gets.last.t)
    /\ ( /\ gets.n >= 2
         /\ MustRefresh(gets.prev) /\ gets.prev.ok
         /\ ~gets.last.force
         /\ gets.last.t - gets.prev.t < CacheTtl )
       => gets.last.ret = gets.prev.ret

(***************************************************************************)
(* Properties of the max-position-size rule                                *)
(***************************************************************************)

\* the size check() reads from the last event handed to it, when it reads one
SizeRead == ExtractPositionData(checked.ev)
SizeExtracted == SizeRead.ok /\ SizeRead.numeric

C13_EnrichedBreachIffOverLimit ==
    ( /\ checked.n > 0 /\ rule.enabled
      /\ checked.ev.shape = "enriched"
      /\ checked.ev.hasSize /\ checked.ev.numeric
      /\ checked.ev.cid # "no_mapping" )
    => (~checked.passed <=> Abs(checked.ev.size) > rule.max_size)

\* C14: when the rule is disabled, or no size can be extracted from the
\* event, or the check raises, check returns pass, the breach counter is
\* unchanged and no close-position action is invoked.
C14_FailsOpen ==
    (checked.n > 0 /\ (~rule.enabled \/ ~SizeExtracted)) =>
        /\ checked.passed
        /\ rule.breach_count = checked.countBefore
        /\ checked.closes = 0

\* an enabled auto-flattening rule holding a TradingSuite passes an event
\* over the limit whose size it cannot read
C14_Witness ==
    /\ checked.n > 0 /\ rule.enabled /\ rule.auto_flatten
    /\ checked.client = "suite"
    /\ ~SizeExtracted
    /\ checked.ev.hasSize /\ Abs(checked.ev.size) > rule.max_size
    /\ checked.passed

(***************************************************************************)
(* Properties of the rule engine                                           *)
(***************************************************************************)

\* the rules the last evaluation found in breach: their counters grew
Breached(i) ==
    evaluated.rulesAfter[i].breach_count
        > evaluated.rulesBefore[i].breach_count
BreachedRules == {i \in 1..Len(evaluated.rulesBefore) : Breached(i)}
AutoBreachedRules ==
    {i \in BreachedRules : evaluated.rulesBefore[i].auto_flatten}
ClosesInvoked == evaluated.ruleCloses + evaluated.handlerCloses

\* C15: whenever an enabled rule with auto_flatten set detects a breach in an
\* evaluation dispatched by the engine, which was given a client, the
\* close-position action is invoked; when no rule in breach has auto_flatten
\* set it is not invoked.
C15_AutoMitigateInvokesClose ==
    evaluated.n > 0 =>
        /\ (AutoBreachedRules # {} /\ evaluated.client # "none")
               => ClosesInvoked >= 1
        /\ AutoBreachedRules = {} => ClosesInvoked = 0

\* the second half of C15 alone: no close without an auto-flattening rule
\* in breach
X15_NoCloseWhenUnset ==
    (evaluated.n > 0 /\ AutoBreachedRules = {}) => ClosesInvoked = 0

\* the rules the limit test puts in breach on the last event, worked out
\* from the event and the limits the rules had
OverLimit(i) ==
    LET d == ExtractPositionData(evaluated.ev) IN
    /\ evaluated.event_type \in {"position_updated", "order_filled"}
    /\ evaluated.rulesBefore[i].enabled
    /\ d.ok /\ d.numeric
    /\ Abs(d.size) > evaluated.rulesBefore[i].max_size
OverLimitRules == {i \in 1..Len(evaluated.rulesBefore) : OverLimit(i)}

\* C16: when the close-position action invoked for a breach raises or
\* reports failure, the breach stands: each rule over its limit has counted
\* it, the returned breaches list and the engine's breaches_detected hold one
\* entry for each, and the action was invoked no more than once for each
\* auto-flattening rule in breach.
C16_MitigationFailureKeepsBreach ==
    (evaluated.n > 0 /\ evaluated.outcome \in {"failure", "raises"}) =>
        /\ \A i \in OverLimitRules :
              evaluated.rulesAfter[i].breach_count
                  = evaluated.rulesBefore[i].breach_count + 1
        /\ evaluated.breaches = Cardinality(OverLimitRules)
        /\ evaluated.statsAfter.breaches_detected
              = evaluated.statsBefore.breaches_detected
                    + Cardinality(OverLimitRules)
        /\ ClosesInvoked
              <= Cardinality({i \in OverLimitRules :
                                 evaluated.rulesBefore[i].auto_flatten})

\* the close action a rule invoked on a TradingSuite raised, and the breach
\* is in the result and in the engine's counter
C16_Witness ==
    /\ evaluated.n > 0
    /\ evaluated.outcome = "raises"
    /\ evaluated.ruleCloses >= 1
    /\ evaluated.breaches >= 1
    /\ evaluated.statsAfter.breaches_detected >= 1

\* C17: for a position_updated or order_filled event process_event checks
\* every loaded rule exactly once: rules_checked of the result is the number
\* of loaded rules, breaches has one entry for each rule over its limit and
\* each such rule counted one breach, the others none; the engine's counters
\* grow by 1 (events_processed), by the number of rules (rules_checked) and
\* by the number of breaches (breaches_detected).
C17_EngineAggregation ==
    ( /\ evaluated.n > 0
      /\ evaluated.event_type \in {"position_updated", "order_filled"} )
    => /\ evaluated.rules_checked = Len(evaluated.rulesBefore)
       /\ Len(evaluated.rulesAfter) = Len(evaluated.rulesBefore)
       /\ \A i \in 1..Len(evaluated.rulesBefore) :
             evaluated.rulesAfter[i].breach_count
                 = evaluated.rulesBefore[i].breach_count
                       + (IF OverLimit(i) THEN 1 ELSE 0)
       /\ evaluated.breaches = Cardinality(OverLimitRules)
       /\ evaluated.statsAfter =
             [events_processed |->
                  evaluated.statsBefore.events_processed + 1,
              rules_checked |->
                  evaluated.statsBefore.rules_checked
                      + Len(evaluated.rulesBefore),
              breaches_detected |->
                  evaluated.statsBefore.breaches_detected
                      + Cardinality(OverLimitRules)]

\* two loaded rules, the first of them in breach on the event, the second
\* not
C17_Witness ==
    /\ evaluated.n > 0
    /\ Len(evaluated.rulesBefore) = 2
    /\ OverLimitRules = {1}
    /\ evaluated.rules_checked = 2
    /\ evaluated.breaches = 1

\* C18: after any sequence of initialize and reload_config the engine holds
\* one rule instance for the enabled max_contracts entry of its
\* configuration and none when the entry is absent or disabled; never two.
C18_OneInstancePerConfig ==
    ruleEngine.loads > 0 =>
        Len(ruleEngine.rules) = (IF ruleEngine.config.enabled THEN 1 ELSE 0)

\* the settings of the configuration the engine holds
Configured(r) ==
    /\ ruleEngine.config.enabled
    /\ r.enabled
    /\ r.max_size = ruleEngine.config.max_size
    /\ r.auto_flatten = ruleEngine.config.auto_flatten

\* C19: after reload_config the loaded rules and their limits are those of
\* the reloaded configuration: every loaded rule has the settings of the
\* configuration's enabled entry, and an enabled entry has a loaded rule.
C19_ReloadReplacesRules ==
    ruleEngine.loads >= 2 =>
        /\ \A i \in 1..Len(ruleEngine.rules) : Configured(ruleEngine.rules[i])
        /\ ruleEngine.config.enabled => Len(ruleEngine.rules) >= 1

\* every counter of the engine and of its rules is a natural number
CountersNonNegative ==
    /\ ruleEngine.stats.events_processed >= 0
    /\ ruleEngine.stats.rules_checked >= 0
    /\ ruleEngine.stats.breaches_detected >= 0
    /\ \A i \in 1..Len(ruleEngine.rules) :
          ruleEngine.rules[i].breach_count >= 0

\* C20: events_processed, rules_checked, breaches_detected and the breach
\* counter of every loaded rule are non-negative and no operation of the
\* engine or of a rule makes one of them smaller.
C20_CountersMonotonic ==
    [][ /\ CountersNonNegative
        /\ ruleEngine'.stats.events_processed
              >= ruleEngine.stats.events_processed
        /\ ruleEngine'.stats.rules_checked >= ruleEngine.stats.rules_checked
        /\ ruleEngine'.stats.breaches_detected
              >= ruleEngine.stats.breaches_detected
        /\ \A i \in 1..Len(ruleEngine.rules) :
              /\ i <= Len(ruleEngine'.rules)
              /\ ruleEngine'.rules[i].breach_count
                    >= ruleEngine.rules[i].breach_count ]_vars

(***************************************************************************)
(* Properties of the configuration load                                    *)
(***************************************************************************)

\* C21: when the configuration file is missing or malformed (unparseable,
\* no mapping, or an enabled entry without max_size or severity),
\* initialize() returns normally, with no rule loaded and the default
\* configuration in place.
C21_LoadFailureRecovered ==
    ( /\ ruleEngine.loads = 1
      /\ ruleEngine.lastLoad.file.kind # "ok" )
    => /\ ruleEngine.lastLoad.raised = "none"
       /\ ruleEngine.rules = << >>
       /\ ruleEngine.config = ConfigMissing

\* the part of C21 the code keeps: a missing file and a file json.load
\* rejects give the default configuration and no rule, without an exception
X21_MissingOrUnparseable ==
    ( /\ ruleEngine.loads = 1
      /\ ruleEngine.lastLoad.file.kind \in {"missing", "unparseable"} )
    => /\ ruleEngine.lastLoad.raised = "none"
       /\ ruleEngine.rules = << >>
       /\ ruleEngine.config = ConfigMissing

(***************************************************************************)
(* Properties of the manual-close marker and the confirmed position        *)
(***************************************************************************)

\* the step takes the confirmed position from a nonzero size to size zero
ConfirmedGoesFlat == lastConfirmed.size # 0 /\ lastConfirmed'.size = 0

WindowElapsed == flatTs # 0 /\ now - flatTs >= IgnoreReopenWindow

\* C23: once set, the manual-close marker is never cleared and its
\* timestamp never decreases; once the window has elapsed, no step
\* classifies an event as ghost reopen or as stale fill (until a new manual
\* close sets the marker again).
C23_MarkerOnlyAgesOut ==
    [][ /\ flatTs # 0 => (flatTs' # 0 /\ flatTs' >= flatTs)
        /\ WindowElapsed =>
              /\ lastPos'.ghosts = lastPos.ghosts
              /\ staleFiltered' = staleFiltered ]_vars

\* a fill whose stale test ran at or after marker + window, on a snapshot
\* of nonzero size, was not classified stale
C23_Witness ==
    \E t \in TaskIds :
        /\ BodyDone(t)
        /\ tasks[t].mk # 0
        /\ tasks[t].chk - tasks[t].mk >= IgnoreReopenWindow
        /\ Truthy(tasks[t].cur) /\ tasks[t].cur.size # 0
        /\ ~tasks[t].stale
        /\ flatTs = tasks[t].mk

LastMalformed ==
    lastPos.outcome \notin {"none", "raised"} /\ lastPos.direction = "UNDEFINED"

\* C25: a position-update event whose payload has no size field or is of an
\* unrecognised shape changes nothing: the confirmed position keeps its
\* size, the manual-close marker stays where it was and no manual close is
\* emitted, also when the confirmed position is nonzero.
C25_MalformedPayloadIgnored ==
    LastMalformed =>
        /\ lastConfirmed.size = lastPos.confBefore.size
        /\ flatTs = lastPos.tsBefore
        /\ lastPos.outcome # "manual_close"

\* C26: no exception escapes the position-update handler, whatever the
\* shape of the event: it returns normally to the dispatcher.
C26_NoExceptionEscapes == lastPos.outcome # "raised"

(***************************************************************************)
(* Properties of the risk evaluation of position events                    *)
(***************************************************************************)

\* C27: a position-update event recognised as a manual close is not
\* risk-evaluated: the step that handles it leaves the engine's
\* events_processed and rules_checked as they were.
C27_ManualCloseNotEvaluated ==
    [][ lastPos'.closes = lastPos.closes + 1 =>
          /\ engine'.eventsProcessed = engine.eventsProcessed
          /\ engine'.rulesChecked = engine.rulesChecked ]_vars

(***************************************************************************)
(* Properties of the run loop                                              *)
(***************************************************************************)

\* run_listener has ended, by returning or by raising
RunEnded == runner.pc \in {"returned", "raised", "exited"}

\* C28: once the stop signal has reached the status loop, the loop ends,
\* the disconnect is attempted exactly once and the final summary is
\* eventually emitted, also when the disconnect raises; the exception of a
\* disconnect never leaves run_listener.
C28_ShutdownCompletes ==
    /\ [](runner.disconnects <= 1 /\ runner.summary <= 1)
    /\ []((runner.stopAt = "loop" /\ RunEnded) =>
            /\ runner.disconnects = 1
            /\ runner.summary = 1
            /\ runner.pending = "none")
    /\ (runner.stopAt = "loop") ~> (runner.summary = 1 /\ RunEnded)

\* after a stop signal in the loop the disconnect raised, the summary was
\* emitted and run_listener returned
C28_Witness ==
    /\ runner.stopAt = "loop"
    /\ runner.disconnect = "raised"
    /\ runner.summary = 1
    /\ runner.pc = "returned"
    /\ eventCounts.position_updated > 0

\* C29: the process ends with status 0 after a graceful shutdown, and with
\* a status other than 0 exactly when the startup failed.
C29_ExitStatus ==
    runner.pc = "exited" =>
        (runner.exit # 0 <=> runner.pending = "Exception")

\* the confirmed position agrees with the ground truth b
Agrees(b) == lastConfirmed.size = b.size /\ lastConfirmed.direction = b.direction

\* C30: after a ghost reopen was suppressed while the ground-truth position
\* is nonzero, the confirmed position eventually agrees with the ground
\* truth, unless the ground truth changes, a further position update
\* arrives or the listener is stopped first.
C30_GhostResolvedByPolling ==
    \A b \in BrokerPositions : \A n \in 1..MaxEvents :
        ( /\ lastPos.outcome = "ghost"
          /\ eventCounts.position_updated = n
          /\ broker = b )
        ~> ( \/ Agrees(b)
             \/ eventCounts.position_updated # n
             \/ broker # b
             \/ runner.pc # "loop" )

(***************************************************************************)
(* Properties of the risk evaluation of suppressed events                  *)
(***************************************************************************)

\* C31: a position-update event the listener suppresses as a ghost reopen
\* leads to no recorded breach and to no close-position call: its
\* evaluation leaves every rule's breach counter and the engine's
\* breaches_detected as they were and invokes no close.
C31_GhostNotEvaluatedAsBreach ==
    lastPos.outcome = "ghost" =>
        /\ BreachedRules = {}
        /\ evaluated.statsAfter.breaches_detected
              = evaluated.statsBefore.breaches_detected
        /\ ClosesInvoked = 0

\* C32: for an event that one auto-flattening rule finds in breach, the
\* close-position action is invoked at most once in total, counting the
\* rule's own _auto_flatten and the breach handling of RiskEventHandler.
C32_CloseAtMostOnce ==
    (evaluated.n > 0 /\ Cardinality(AutoBreachedRules) = 1)
        => ClosesInvoked <= 1

\* the handler, created with a suite, passed an event one auto-flattening
\* rule found in breach: the rule's own attempt on the client made no call,
\* the handler made one
C32_Witness ==
    /\ evaluated.via \in {"on_position_updated", "on_order_filled"}
    /\ Cardinality(AutoBreachedRules) = 1
    /\ evaluated.client = "client"
    /\ evaluated.ruleCloses = 0
    /\ evaluated.handlerCloses = 1

\* C34: when a position-update event reaches the risk handler as an event
\* wrapper whose data mapping holds the size, every enabled rule whose
\* max_size is below the magnitude of the size the handler logged is found
\* in breach, and the engine returns a breach for the event.
C34_WrapperSizeEvaluated ==
    (evaluated.n > 0 /\ evaluated.delivery = "wrapper") =>
        \A i \in 1..Len(evaluated.rulesBefore) :
            ( /\ evaluated.rulesBefore[i].enabled
              /\ Abs(evaluated.logged) > evaluated.rulesBefore[i].max_size )
            => (Breached(i) /\ evaluated.breaches >= 1)

\* the same for an event that reaches the handler as the payload mapping
X34_MappingSizeEvaluated ==
    (evaluated.n > 0 /\ evaluated.delivery = "dict") =>
        \A i \in 1..Len(evaluated.rulesBefore) :
            ( /\ evaluated.rulesBefore[i].enabled
              /\ Abs(evaluated.logged) > evaluated.rulesBefore[i].max_size )
            => (Breached(i) /\ evaluated.breaches >= 1)

(***************************************************************************)
(* Properties of the order-fill handling                                   *)
(***************************************************************************)

\* C33: once the handlers of the delivered fills have returned, the
\* order_filled count equals the number of fills the event source delivered,
\* and the fill-handling body ran once for the last fill, with risk rules
\* enabled or disabled.
C33_OneBodyPerFill ==
    FillHandled =>
        /\ eventCounts.order_filled = fillEv.n
        /\ fillEv.bodies = 1

\* the part of C33 the code keeps: one body for each fill when risk rules
\* are disabled
X33_OneBodyWithoutRules ==
    (FillHandled /\ ~riskEnabled) =>
        /\ eventCounts.order_filled = fillEv.n
        /\ fillEv.bodies = 1

C36_CloseDuringDelayMakesFillStale ==
    [][ \A t \in TaskIds :
          ( /\ tasks[t].pc = "sleep"
            /\ tasks'[t].pc \in {"risk", "done"}
            /\ flatTs # 0 /\ now - flatTs < IgnoreReopenWindow
            /\ Truthy(tasks'[t].cur) /\ tasks'[t].cur.size # 0 )
          => /\ tasks'[t].stale
             /\ tasks'[t].label = "none"
             /\ tradeActions' = tradeActions
             /\ staleFiltered' = staleFiltered + 1 ]_vars

\* a manual close was recorded after the fill handler's first read, at the
\* end of its delay; the fill, its post-delay snapshot nonzero, was
\* classified stale against that marker
C36_Witness ==
    \E t \in TaskIds :
        /\ BodyDone(t)
        /\ lastPos.outcome = "manual_close"
        /\ tasks[t].mk = lastPos.t
        /\ tasks[t].mk = tasks[t].chk
        /\ Truthy(tasks[t].cur) /\ tasks[t].cur.size # 0
        /\ tasks[t].stale

(***************************************************************************)
(* Properties of the snapshot cache under concurrent handlers              *)
(***************************************************************************)

\* C37: with handlers suspended at their live queries at the same time, the
\* cache timestamp never decreases: the answer of a query that started
\* earlier and ended later does not replace the entry a later query stored.
C37_CacheKeepsLatestQuery == [][cacheTs' >= cacheTs]_vars

\* the same where the handlers of ORDER_FILLED run one after the other
X37_SequentialCacheMonotonic == [][cacheTs' >= cacheTs]_vars

(***************************************************************************)
(* Properties of the breach counters                                       *)
(***************************************************************************)

RECURSIVE BreachCounterSum(_)
BreachCounterSum(rs) ==
    IF rs = <<>> THEN 0
    ELSE Head(rs).breach_count + BreachCounterSum(Tail(rs))

\* C38: as long as no counter is reset, the engine's breaches_detected is
\* the sum of the breach counters of the loaded rules, and in an evaluation
\* the engine records as many breaches as there are rules whose counter
\* grew, each by one.
C38_EngineCountsWhatRulesCount ==
    /\ ruleEngine.stats.breaches_detected = BreachCounterSum(ruleEngine.rules)
    /\ evaluated.n > 0 =>
          /\ evaluated.breaches = Cardinality(BreachedRules)
          /\ evaluated.statsAfter.breaches_detected
                = evaluated.statsBefore.breaches_detected
                      + Cardinality(BreachedRules)
          /\ \A i \in BreachedRules :
                evaluated.rulesAfter[i].breach_count
                    = evaluated.rulesBefore[i].breach_count + 1

\* a rule counted a breach, and a rule loaded afterwards has counted none
C38_Witness ==
    /\ Len(ruleEngine.rules) = 2
    /\ ruleEngine.rules[1].breach_count = 1
    /\ ruleEngine.rules[2].breach_count = 0
    /\ ruleEngine.stats.breaches_detected = 1

\* with resets the two counts part
X38_HoldsAcrossResets ==
    ruleEngine.stats.breaches_detected = BreachCounterSum(ruleEngine.rules)

(***************************************************************************)
(* Properties of the error path of the position-update handler             *)
(***************************************************************************)

\* C39: when _on_position_updated ends in its except branch, the event has
\* changed neither the confirmed position nor the manual-close marker.
C39_ErrorPathLeavesStateAlone ==
    lastPos.outcome = "error" =>
        /\ lastConfirmed = lastPos.confBefore
        /\ flatTs = lastPos.tsBefore

\* the confirmed position does keep its value on the error path
X39_ErrorPathKeepsConfirmed ==
    lastPos.outcome = "error" => lastConfirmed = lastPos.confBefore

====
